---- MODULE Spec2Model ----
(***************************************************************************)
(* A model of the Monkey interpreter: the lexer (src/src/lexer/mod.rs),    *)
(* the token table (src/src/token/mod.rs), the Pratt parser                *)
(* (src/src/parser/*.rs) and the evaluator (src/src/evaluator/*.rs).       *)
(*                                                                         *)
(* Characters are one-character strings, texts are sequences of            *)
(* characters.  Positions are 0-based as in the source; SubSeq and         *)
(* indexing are shifted by one where they touch a TLA+ sequence.           *)
(***************************************************************************)
EXTENDS Integers, Sequences, FiniteSets, TLC

VARIABLES
    lexer,          \* Lexer { input, current_position, next_position, ch }
    tokens,         \* the tokens returned so far by Lexer::next_token (lexer runs)
    panicked,       \* TRUE once a slice of the input was taken out of bounds
    current_token,  \* Parser.current_token
    peek_token,     \* Parser.peek_token
    program,        \* parse_program: program.statements
    errors,         \* parse_program: errors
    pc,             \* position of the running operation
    result,         \* what parse_program returned
    evaluator,      \* a call into the evaluator: its argument, variables and position
    repl            \* a call of repl::start: its reader, its writes and its position

vars ==
    <<lexer, tokens, panicked, current_token, peek_token, program, errors, pc, result,
      evaluator, repl>>

-----------------------------------------------------------------------------
(* Characters *)

\* '\0', the end-of-input sentinel of the lexer
NUL == "NUL"

\* char::is_alphabetic on the letters the model uses
Letters == {"a", "b", "c", "d", "e", "f", "g", "h", "i", "j", "k", "l", "m",
            "n", "o", "p", "q", "r", "s", "t", "u", "v", "w", "x", "y", "z"}

\* char::is_ascii_digit
Digits == {"0", "1", "2", "3", "4", "5", "6", "7", "8", "9"}

\* char::is_whitespace on the ASCII range
Whitespace == {" ", "\t", "\n", "\r"}

IsAlphabetic(c) == c \in Letters

IsAsciiDigit(c) == c \in Digits

IsAlphanumeric(c) == c \in Letters \cup Digits

IsWhitespace(c) == c \in Whitespace

-----------------------------------------------------------------------------
(* Tokens: src/src/token/mod.rs *)

Token(type, literal) == [type |-> type, literal |-> literal]

\* Token::from_ident's keyword table
KeywordType(ident) ==
    CASE ident = <<"f", "n">> -> "Function"
      [] ident = <<"l", "e", "t">> -> "Let"
      [] ident = <<"i", "f">> -> "If"
      [] ident = <<"e", "l", "s", "e">> -> "Else"
      [] ident = <<"t", "r", "u", "e">> -> "True"
      [] ident = <<"f", "a", "l", "s", "e">> -> "False"
      [] ident = <<"r", "e", "t", "u", "r", "n">> -> "Return"
      [] OTHER -> "Ident"

FromIdent(ident) == Token(KeywordType(ident), ident)

\* the value of a token field before the parser is primed
NoToken == Token("None", <<>>)

-----------------------------------------------------------------------------
(* Lexer: src/src/lexer/mod.rs *)

\* input[a..b] of the source: the characters at 0-based positions a .. b-1.
\* Rust panics when a > b or b > len; SliceInBounds says it does not.
SliceInBounds(input, a, b) == a <= b /\ b <= Len(input)

Slice(input, a, b) == IF SliceInBounds(input, a, b) THEN SubSeq(input, a + 1, b) ELSE <<>>

\* read_char without its bounds check keeping next_position in the buffer
ReadChar_NoBound(l) ==
    IF l.next_position >= Len(l.input)
    THEN [l EXCEPT !.ch = NUL, !.next_position = l.next_position + 1]
    ELSE [l EXCEPT !.ch = l.input[l.next_position + 1],
                   !.current_position = l.next_position,
                   !.next_position = l.next_position + 1]

ReadChar(l) ==
    IF l.next_position >= Len(l.input)
    THEN [l EXCEPT !.ch = NUL]
    ELSE [l EXCEPT !.ch = l.input[l.next_position + 1],
                   !.current_position = l.next_position,
                   !.next_position = l.next_position + 1]

PeekChar(l) ==
    IF l.next_position >= Len(l.input) THEN NUL ELSE l.input[l.next_position + 1]

RECURSIVE SkipWhitespace(_)
SkipWhitespace(l) == IF IsWhitespace(l.ch) THEN SkipWhitespace(ReadChar(l)) ELSE l

\* the while loop of read_identifier
RECURSIVE ReadIdentifierLoop(_)
ReadIdentifierLoop(l) ==
    IF IsAlphanumeric(l.ch) \/ l.ch = "_" THEN ReadIdentifierLoop(ReadChar(l)) ELSE l

\* read_identifier: the slice runs from the start to the current_position
\* the loop stopped at
ReadIdentifier(l) ==
    LET position == l.current_position
        l2 == ReadIdentifierLoop(l)
    IN [lit |-> Slice(l.input, position, l2.current_position),
        inb |-> SliceInBounds(l.input, position, l2.current_position),
        lexer |-> l2]

\* the while loop of read_number
RECURSIVE ReadNumberLoop(_)
ReadNumberLoop(l) == IF IsAsciiDigit(l.ch) THEN ReadNumberLoop(ReadChar(l)) ELSE l

ReadNumber(l) ==
    LET position == l.current_position
        l2 == ReadNumberLoop(l)
    IN [lit |-> Slice(l.input, position, l2.current_position),
        inb |-> SliceInBounds(l.input, position, l2.current_position),
        lexer |-> l2]

\* make_two_char_token that does not consume the second character
MakeTwoCharToken_NoConsume(l, next_char, single_char_type, double_char_type) ==
    LET position == l.current_position
        double == PeekChar(l) = next_char
    IN [tok |-> Token(IF double THEN double_char_type ELSE single_char_type,
                      Slice(l.input, position, l.current_position + 1)),
        inb |-> SliceInBounds(l.input, position, l.current_position + 1),
        lexer |-> l]

MakeTwoCharToken(l, next_char, single_char_type, double_char_type) ==
    LET position == l.current_position
        double == PeekChar(l) = next_char
        l2 == IF double THEN ReadChar(l) ELSE l
    IN [tok |-> Token(IF double THEN double_char_type ELSE single_char_type,
                      Slice(l.input, position, l2.current_position + 1)),
        inb |-> SliceInBounds(l.input, position, l2.current_position + 1),
        lexer |-> l2]

\* the single-character arms of next_token's match
SingleCharType(c) ==
    CASE c = "+" -> "Plus"
      [] c = "-" -> "Minus"
      [] c = "*" -> "Star"
      [] c = "/" -> "Slash"
      [] c = "<" -> "Lt"
      [] c = ">" -> "Gt"
      [] c = "," -> "Comma"
      [] c = ";" -> "Semicolon"
      [] c = "(" -> "LParen"
      [] c = ")" -> "RParen"
      [] c = "{" -> "LBrace"
      [] c = "}" -> "RBrace"
      [] OTHER -> "Illegal"

\* Lexer::next_token: the token, the lexer after the call, and whether every
\* slice it took lay inside the buffer
NextToken(l0) ==
    LET l == SkipWhitespace(l0)
    IN CASE l.ch = "=" ->
              LET r == MakeTwoCharToken(l, "=", "Assign", "Eq")
              IN [tok |-> r.tok, inb |-> r.inb, lexer |-> ReadChar(r.lexer)]
         [] l.ch = "!" ->
              LET r == MakeTwoCharToken(l, "=", "Bang", "NotEq")
              IN [tok |-> r.tok, inb |-> r.inb, lexer |-> ReadChar(r.lexer)]
         [] l.ch = NUL ->
              [tok |-> Token("Eof", <<>>), inb |-> TRUE, lexer |-> ReadChar(l)]
         [] IsAlphabetic(l.ch) \/ l.ch = "_" ->
              LET r == ReadIdentifier(l)
              IN [tok |-> FromIdent(r.lit), inb |-> r.inb, lexer |-> r.lexer]
         [] IsAsciiDigit(l.ch) ->
              LET r == ReadNumber(l)
              IN [tok |-> Token("Int", r.lit), inb |-> r.inb, lexer |-> r.lexer]
         [] OTHER ->
              [tok |-> Token(SingleCharType(l.ch), <<l.ch>>), inb |-> TRUE,
               lexer |-> ReadChar(l)]

\* Lexer::new: the fields as constructed, then primed by one read_char
LexerNew(input) ==
    ReadChar([input |-> input, current_position |-> 0, next_position |-> 0, ch |-> NUL])

-----------------------------------------------------------------------------
(* Precedence: src/src/parser/precedence.rs *)

Lowest == 0

Equals == 1

Ordering == 2

Sum == 3

Product == 4

Prefix == 5

Call == 6

PrecedenceOf(token_type) ==
    CASE token_type \in {"Eq", "NotEq"} -> Equals
      [] token_type \in {"Lt", "Gt"} -> Ordering
      [] token_type \in {"Plus", "Minus"} -> Sum
      [] token_type \in {"Slash", "Star"} -> Product
      [] OTHER -> Lowest

-----------------------------------------------------------------------------
(* Parser: src/src/parser/mod.rs, statements.rs, expressions.rs.            *)
(* A parser value p is the record of the fields lexer, current_token and   *)
(* peek_token.  A parse function returns Ok(value, p), Err(error, p) or,    *)
(* when it never returns, Hang(p): p is the parser as the function left it. *)

Ok(val, p) == [res |-> "Ok", val |-> val, p |-> p]

Err(err, p) == [res |-> "Err", val |-> err, p |-> p]

Hang(p) == [res |-> "Hang", val |-> <<>>, p |-> p]

\* Display for TokenType
DisplayTokenType(tt) ==
    CASE tt = "Illegal" -> "ILLEGAL"
      [] tt = "Eof" -> "EOF"
      [] tt = "Ident" -> "IDENT"
      [] tt = "Int" -> "INT"
      [] tt = "Assign" -> "="
      [] tt = "Plus" -> "+"
      [] tt = "Minus" -> "-"
      [] tt = "Bang" -> "!"
      [] tt = "Star" -> "*"
      [] tt = "Slash" -> "/"
      [] tt = "Lt" -> "<"
      [] tt = "Gt" -> ">"
      [] tt = "Eq" -> "=="
      [] tt = "NotEq" -> "!="
      [] tt = "Comma" -> ","
      [] tt = "Semicolon" -> ";"
      [] tt = "LParen" -> "("
      [] tt = "RParen" -> ")"
      [] tt = "LBrace" -> "{"
      [] tt = "RBrace" -> "}"
      [] tt = "Function" -> "FUNCTION"
      [] tt = "Let" -> "LET"
      [] tt = "If" -> "IF"
      [] tt = "Else" -> "ELSE"
      [] tt = "Return" -> "RETURN"
      [] tt = "True" -> "TRUE"
      [] tt = "False" -> "FALSE"
      [] OTHER -> "NONE"

\* a text as one string (String from the characters)
RECURSIVE Str(_)
Str(text) == IF text = <<>> THEN "" ELSE Head(text) \o Str(Tail(text))

\* Parser::next_token
ParserNextToken(p) ==
    LET r == NextToken(p.lexer)
    IN [lexer |-> r.lexer, current_token |-> p.peek_token, peek_token |-> r.tok]

\* Parser::new: both tokens primed by two next_token calls
ParserNew(l) ==
    ParserNextToken(ParserNextToken(
        [lexer |-> l, current_token |-> NoToken, peek_token |-> NoToken]))

CurTokenIs(p, tt) == p.current_token.type = tt

PeekTokenIs(p, tt) == p.peek_token.type = tt

PeekError(p, tt) ==
    "expected next token to be " \o DisplayTokenType(tt) \o ", got "
        \o DisplayTokenType(p.peek_token.type) \o " instead"

\* expect_peek that moves on to the next token also when it fails
ExpectPeek_AdvanceOnError(p, tt) ==
    IF PeekTokenIs(p, tt) THEN Ok(<<>>, ParserNextToken(p))
    ELSE Err(PeekError(p, tt), ParserNextToken(p))

ExpectPeek(p, tt) ==
    IF PeekTokenIs(p, tt) THEN Ok(<<>>, ParserNextToken(p)) ELSE Err(PeekError(p, tt), p)

PeekPrecedence(p) == PrecedenceOf(p.peek_token.type)

CurrentPrecedence(p) == PrecedenceOf(p.current_token.type)

\* register_tokens: the token types with a prefix parse function
PrefixTokens == {"Ident", "Int", "True", "False", "Bang", "Minus", "LParen", "If", "Function"}

\* register_tokens: the token types with an infix parse function
InfixTokens == {"Plus", "Minus", "Slash", "Star", "Eq", "NotEq", "Lt", "Gt"}

\* Parser::synchronize: the token looked at runs ahead of peek_token, read
\* straight from the lexer
RECURSIVE SynchronizeLoop(_, _)
SynchronizeLoop(p, token) ==
    IF token.type = "Eof" THEN p
    ELSE IF token.type \in {"Semicolon", "RBrace"} THEN ParserNextToken(p)
    ELSE IF token.type \in {"Let", "Return", "If", "Else", "Function"} THEN p
    ELSE LET r == NextToken(p.lexer)
         IN SynchronizeLoop([p EXCEPT !.lexer = r.lexer], r.tok)

Synchronize(p) == SynchronizeLoop(p, p.peek_token)

-----------------------------------------------------------------------------
(* AST nodes: src/src/ast/expressions.rs, src/src/ast/statements.rs *)

Identifier(token) == [kind |-> "Identifier", token |-> token, value |-> token.literal]

IntegerLiteral(token, value) == [kind |-> "Integer", token |-> token, value |-> value]

BooleanLiteral(token, value) == [kind |-> "Boolean", token |-> token, value |-> value]

PrefixExpression(token, right) ==
    [kind |-> "Prefix", token |-> token, operator |-> token.literal, right |-> right]

InfixExpression(token, left, right) ==
    [kind |-> "Infix", token |-> token, left |-> left, operator |-> token.literal,
     right |-> right]

\* Option::None of IfExpression.alternative
None == [kind |-> "None"]

IfExpression(token, condition, consequence, alternative) ==
    [kind |-> "If", token |-> token, condition |-> condition,
     consequence |-> consequence, alternative |-> alternative]

FunctionLiteral(token, parameters, body) ==
    [kind |-> "Function", token |-> token, parameters |-> parameters, body |-> body]

BlockStatement(token, statements) ==
    [kind |-> "Block", token |-> token, statements |-> statements]

LetStatement(token, name, value) ==
    [kind |-> "Let", token |-> token, name |-> name, value |-> value]

ReturnStatement(token, return_value) ==
    [kind |-> "Return", token |-> token, return_value |-> return_value]

ExpressionStatement(token, expression) ==
    [kind |-> "Expression", token |-> token, expression |-> expression]

-----------------------------------------------------------------------------
(* str::parse::<i64> on a run of ASCII digits *)

DigitValue(c) ==
    CASE c = "0" -> 0 [] c = "1" -> 1 [] c = "2" -> 2 [] c = "3" -> 3 [] c = "4" -> 4
      [] c = "5" -> 5 [] c = "6" -> 6 [] c = "7" -> 7 [] c = "8" -> 8 [] c = "9" -> 9

\* an i64 as sign and magnitude, the magnitude in three limbs of eight
\* decimal digits, least significant first
I64(neg, mag) == [neg |-> neg, mag |-> mag]

\* the i64 of a small natural number
I64Of(n) == I64(FALSE, <<n, 0, 0>>)

\* the magnitude of i64::MAX, 9223372036854775807
I64MaxMag == <<54775807, 33720368, 922>>

\* a comparison of magnitudes that looks at the most significant limb only
MagGreater_HighLimbOnly(a, b) == a[3] > b[3]

\* magnitude a is greater than magnitude b
MagGreater(a, b) ==
    \/ a[3] > b[3]
    \/ a[3] = b[3] /\ a[2] > b[2]
    \/ a[3] = b[3] /\ a[2] = b[2] /\ a[1] > b[1]

\* mag * 10 + d, the step of the parse on one more digit
MulAdd(mag, d) ==
    LET x1 == mag[1] * 10 + d
        x2 == mag[2] * 10 + (x1 \div 100000000)
        x3 == mag[3] * 10 + (x2 \div 100000000)
    IN <<x1 % 100000000, x2 % 100000000, x3>>

\* the digits of str::parse::<i64>, one at a time with checked arithmetic:
\* the parse fails as soon as the value would pass i64::MAX
RECURSIVE ParseI64Loop(_, _)
\* a parse that fails only when the value would pass 9223372036854775808
ParseI64Loop_UpToMinMag(lit, mag) ==
    IF lit = <<>> THEN [ok |-> TRUE, value |-> I64(FALSE, mag)]
    ELSE LET m == MulAdd(mag, DigitValue(Head(lit)))
         IN IF MagGreater(m, <<54775808, 33720368, 922>>) THEN [ok |-> FALSE]
            ELSE ParseI64Loop(Tail(lit), m)

ParseI64Loop(lit, mag) ==
    IF lit = <<>> THEN [ok |-> TRUE, value |-> I64(FALSE, mag)]
    ELSE LET m == MulAdd(mag, DigitValue(Head(lit)))
         IN IF MagGreater(m, I64MaxMag) THEN [ok |-> FALSE]
            ELSE ParseI64Loop(Tail(lit), m)

\* str::parse::<i64> on a run of digits: no i64 for the empty string
ParseI64(lit) ==
    IF lit = <<>> THEN [ok |-> FALSE] ELSE ParseI64Loop(lit, <<0, 0, 0>>)

-----------------------------------------------------------------------------
(* Expressions and statements: src/src/parser/expressions.rs, statements.rs *)

RECURSIVE ParseExpression(_, _)
RECURSIVE ParseExpressionLoop(_, _, _)
RECURSIVE ParsePrefixFn(_)
RECURSIVE ParseStatement(_)
RECURSIVE ParseBlockStatement(_)
RECURSIVE ParseBlockStatementLoop(_, _, _)

\* the ? operator (and the `if !... { return Err }` after expect_peek): a
\* result that is not Ok is returned as it is, an Ok one goes on into F
AndThen(r, F(_)) == IF r.res # "Ok" THEN r ELSE F(r)

ParseIdentifier(p) == Ok(Identifier(p.current_token), p)

ParseInteger(p) ==
    IF ~ParseI64(p.current_token.literal).ok
    THEN Err("could not parse " \o Str(p.current_token.literal) \o " as integer", p)
    ELSE Ok(IntegerLiteral(p.current_token, ParseI64(p.current_token.literal).value), p)

ParseBoolean(p) == Ok(BooleanLiteral(p.current_token, CurTokenIs(p, "True")), p)

ParsePrefix(p) ==
    AndThen(ParseExpression(ParserNextToken(p), Prefix), LAMBDA right :
        Ok(PrefixExpression(p.current_token, right.val), right.p))

ParseInfix(p, left) ==
    AndThen(ParseExpression(ParserNextToken(p), CurrentPrecedence(p)), LAMBDA right :
        Ok(InfixExpression(p.current_token, left, right.val), right.p))

ParseGrouped(p) ==
    AndThen(ParseExpression(ParserNextToken(p), Lowest), LAMBDA expr :
    AndThen(ExpectPeek(expr.p, "RParen"), LAMBDA e :
        Ok(expr.val, e.p)))

\* parse_if that never looks for an else
ParseIfAlternative_NoElse(token, condition, consequence) ==
    Ok(IfExpression(token, condition, consequence.val, None), consequence.p)

\* parse_if after the consequence block: the alternative, if else follows
ParseIfAlternative(token, condition, consequence) ==
    IF PeekTokenIs(consequence.p, "Else")
    THEN AndThen(ExpectPeek(ParserNextToken(consequence.p), "LBrace"), LAMBDA e :
         AndThen(ParseBlockStatement(e.p), LAMBDA alternative :
             Ok(IfExpression(token, condition, consequence.val, alternative.val),
                alternative.p)))
    ELSE Ok(IfExpression(token, condition, consequence.val, None), consequence.p)

ParseIf(p) ==
    AndThen(ExpectPeek(p, "LParen"), LAMBDA e1 :
    AndThen(ParseExpression(ParserNextToken(e1.p), Lowest), LAMBDA condition :
    AndThen(ExpectPeek(condition.p, "RParen"), LAMBDA e2 :
    AndThen(ExpectPeek(e2.p, "LBrace"), LAMBDA e3 :
    AndThen(ParseBlockStatement(e3.p), LAMBDA consequence :
        ParseIfAlternative(p.current_token, condition.val, consequence))))))

\* the while loop of parse_function_parameters, and the RParen after it
RECURSIVE ParseFunctionParametersLoop(_, _)
ParseFunctionParametersLoop(p, identifiers) ==
    IF PeekTokenIs(p, "Comma")
    THEN AndThen(ParseIdentifier(ParserNextToken(ParserNextToken(p))), LAMBDA identifier :
             ParseFunctionParametersLoop(identifier.p, Append(identifiers, identifier.val)))
    ELSE AndThen(ExpectPeek(p, "RParen"), LAMBDA e : Ok(identifiers, e.p))

ParseFunctionParameters(p) ==
    IF PeekTokenIs(p, "RParen") THEN Ok(<<>>, ParserNextToken(p))
    ELSE AndThen(ParseIdentifier(ParserNextToken(p)), LAMBDA identifier :
             ParseFunctionParametersLoop(identifier.p, <<identifier.val>>))

ParseFunction(p) ==
    AndThen(ExpectPeek(p, "LParen"), LAMBDA e1 :
    AndThen(ParseFunctionParameters(e1.p), LAMBDA parameters :
    AndThen(ExpectPeek(parameters.p, "LBrace"), LAMBDA e2 :
    AndThen(ParseBlockStatement(e2.p), LAMBDA body :
        Ok(FunctionLiteral(p.current_token, parameters.val, body.val), body.p)))))

\* the prefix parse function registered for current_token's type
ParsePrefixFn(p) ==
    CASE CurTokenIs(p, "Ident") -> ParseIdentifier(p)
      [] CurTokenIs(p, "Int") -> ParseInteger(p)
      [] p.current_token.type \in {"True", "False"} -> ParseBoolean(p)
      [] p.current_token.type \in {"Bang", "Minus"} -> ParsePrefix(p)
      [] CurTokenIs(p, "LParen") -> ParseGrouped(p)
      [] CurTokenIs(p, "If") -> ParseIf(p)
      [] CurTokenIs(p, "Function") -> ParseFunction(p)

\* the while loop of parse_expression
ParseExpressionLoop(p, left, precedence) ==
    IF ~PeekTokenIs(p, "Semicolon") /\ precedence < PeekPrecedence(p)
    THEN IF p.peek_token.type \notin InfixTokens THEN Ok(left, p)
         ELSE AndThen(ParseInfix(ParserNextToken(p), left), LAMBDA infix :
                  ParseExpressionLoop(infix.p, infix.val, precedence))
    ELSE Ok(left, p)

ParseExpression(p, precedence) ==
    IF p.current_token.type \notin PrefixTokens
    THEN Err("no prefix parse function for " \o DisplayTokenType(p.current_token.type)
                 \o " found", p)
    ELSE AndThen(ParsePrefixFn(p), LAMBDA left :
             ParseExpressionLoop(left.p, left.val, precedence))

\* the loop of parse_let_statement and parse_return_statement that advances
\* until current_token is a semicolon.  When next_token no longer changes the
\* parser (the lexer stands at the end, both tokens are Eof) the loop never
\* ends.
RECURSIVE SkipToSemicolon(_)
SkipToSemicolon(p) ==
    IF CurTokenIs(p, "Semicolon") THEN Ok(<<>>, p)
    ELSE IF ParserNextToken(p) = p THEN Hang(p)
    ELSE SkipToSemicolon(ParserNextToken(p))

ParseLetStatement(p) ==
    AndThen(ExpectPeek(p, "Ident"), LAMBDA e1 :
    AndThen(ExpectPeek(e1.p, "Assign"), LAMBDA e2 :
    AndThen(ParseExpression(ParserNextToken(e2.p), Lowest), LAMBDA value :
    AndThen(SkipToSemicolon(value.p), LAMBDA s :
        Ok(LetStatement(p.current_token, Identifier(e1.p.current_token), value.val),
           s.p)))))

ParseReturnStatement(p) ==
    AndThen(ParseExpression(ParserNextToken(p), Lowest), LAMBDA return_value :
    AndThen(SkipToSemicolon(return_value.p), LAMBDA s :
        Ok(ReturnStatement(p.current_token, return_value.val), s.p)))

ParseExpressionStatement(p) ==
    AndThen(ParseExpression(p, Lowest), LAMBDA expression :
        Ok(ExpressionStatement(p.current_token, expression.val),
           IF PeekTokenIs(expression.p, "Semicolon")
           THEN ParserNextToken(expression.p) ELSE expression.p))

ParseStatement(p) ==
    CASE CurTokenIs(p, "Let") -> ParseLetStatement(p)
      [] CurTokenIs(p, "Return") -> ParseReturnStatement(p)
      [] OTHER -> ParseExpressionStatement(p)

\* the while loop of parse_block_statement
ParseBlockStatementLoop(p, token, statements) ==
    IF ~CurTokenIs(p, "RBrace") /\ ~CurTokenIs(p, "Eof")
    THEN AndThen(ParseStatement(p), LAMBDA statement :
             ParseBlockStatementLoop(ParserNextToken(statement.p), token,
                                     Append(statements, statement.val)))
    ELSE Ok(BlockStatement(token, statements), p)

ParseBlockStatement(p) ==
    ParseBlockStatementLoop(ParserNextToken(p), p.current_token, <<>>)

-----------------------------------------------------------------------------
(* parse_program as a function of the input text *)

\* the while loop of parse_program and its return; a statement whose parse
\* never returns makes the whole call never return
RECURSIVE ParseProgramLoop(_, _, _)
ParseProgramLoop(p, statements, errs) ==
    IF CurTokenIs(p, "Eof")
    THEN IF errs = <<>> THEN [kind |-> "Ok", program |-> statements]
         ELSE [kind |-> "Err", errors |-> errs]
    ELSE LET stmt == ParseStatement(p)
         IN IF stmt.res = "Ok"
            THEN ParseProgramLoop(ParserNextToken(stmt.p), Append(statements, stmt.val), errs)
            ELSE IF stmt.res = "Err"
            THEN ParseProgramLoop(ParserNextToken(Synchronize(stmt.p)), statements,
                                  Append(errs, stmt.val))
            ELSE [kind |-> "Hang"]

ParseProgram(input) == ParseProgramLoop(ParserNew(LexerNew(input)), <<>>, <<>>)

-----------------------------------------------------------------------------
(* The pretty-printer: the Display implementations of the AST nodes *)

DigitChar(d) ==
    CASE d = 0 -> "0" [] d = 1 -> "1" [] d = 2 -> "2" [] d = 3 -> "3" [] d = 4 -> "4"
      [] d = 5 -> "5" [] d = 6 -> "6" [] d = 7 -> "7" [] d = 8 -> "8" [] d = 9 -> "9"

\* the decimal digits of a natural number
RECURSIVE NatDigits(_)
NatDigits(n) ==
    IF n < 10 THEN <<DigitChar(n)>> ELSE NatDigits(n \div 10) \o <<DigitChar(n % 10)>>

\* the eight digits of a limb that is not the first one written
PadLimb(x) == [i \in 1..(8 - Len(NatDigits(x))) |-> "0"] \o NatDigits(x)

\* Display of an i64
RenderI64(v) ==
    (IF v.neg THEN <<"-">> ELSE <<>>)
        \o (IF v.mag[3] > 0
            THEN NatDigits(v.mag[3]) \o PadLimb(v.mag[2]) \o PadLimb(v.mag[1])
            ELSE IF v.mag[2] > 0 THEN NatDigits(v.mag[2]) \o PadLimb(v.mag[1])
            ELSE NatDigits(v.mag[1]))

\* Display of a bool
RenderBool(b) == IF b THEN <<"t", "r", "u", "e">> ELSE <<"f", "a", "l", "s", "e">>

\* the texts in ts with ", " between each two
RECURSIVE JoinComma(_)
JoinComma(ts) ==
    IF ts = <<>> THEN <<>>
    ELSE IF Len(ts) = 1 THEN Head(ts)
    ELSE Head(ts) \o <<",", " ">> \o JoinComma(Tail(ts))

RECURSIVE RenderExpression(_)
RECURSIVE RenderStatement(_)
RECURSIVE RenderStatements(_)

\* Display of BlockStatement: its statements one after the other
RenderStatements(statements) ==
    IF statements = <<>> THEN <<>>
    ELSE RenderStatement(Head(statements)) \o RenderStatements(Tail(statements))

\* Display of Expression and of its variants
RenderExpression(e) ==
    CASE e.kind = "Identifier" -> e.value
      [] e.kind = "Integer" -> RenderI64(e.value)
      [] e.kind = "Boolean" -> RenderBool(e.value)
      [] e.kind = "Function" ->
            e.token.literal \o <<"(">>
                \o JoinComma([i \in 1..Len(e.parameters) |-> e.parameters[i].value])
                \o <<")", " ">> \o RenderStatements(e.body.statements)
      [] e.kind = "Prefix" -> <<"(">> \o e.operator \o RenderExpression(e.right) \o <<")">>
      [] e.kind = "Infix" ->
            <<"(">> \o RenderExpression(e.left) \o <<" ">> \o e.operator \o <<" ">>
                \o RenderExpression(e.right) \o <<")">>
      [] e.kind = "If" ->
            <<"i", "f", " ">> \o RenderExpression(e.condition) \o <<" ">>
                \o RenderStatements(e.consequence.statements)
                \o (IF e.alternative = None THEN <<>>
                    ELSE <<" ", "e", "l", "s", "e", " ">>
                             \o RenderStatements(e.alternative.statements))

\* Display of Statement and of its variants
RenderStatement(stmt) ==
    CASE stmt.kind = "Let" ->
            stmt.token.literal \o <<" ">> \o RenderExpression(stmt.name) \o <<" ", "=", " ">>
                \o RenderExpression(stmt.value) \o <<";">>
      [] stmt.kind = "Return" ->
            stmt.token.literal \o <<" ">> \o RenderExpression(stmt.return_value) \o <<";">>
      [] stmt.kind = "Expression" -> RenderExpression(stmt.expression)

\* Display of Program: its statements one after the other
RenderProgram(statements) == RenderStatements(statements)

-----------------------------------------------------------------------------
(* Objects: src/src/object/mod.rs, integer.rs, boolean.rs, null.rs *)

\* an Object is a variant with its struct: Object::Integer(Integer { value })
Integer(value) == [type |-> "Integer", integer |-> [value |-> value]]

Boolean(value) == [type |-> "Boolean", boolean |-> [value |-> value]]

Null == [type |-> "Null"]

-----------------------------------------------------------------------------
(* Evaluator: src/src/evaluator/mod.rs, statements.rs, expressions.rs.       *)
(* A function returns Some(object), None, or it panics in todo!(): Panic.    *)

Some(object) == [kind |-> "Some", value |-> object]

\* todo!(): the thread panics with "not yet implemented"
Panic == [kind |-> "Panic"]

\* the magnitude of i64::MIN, -9223372036854775808
I64MinMag == <<54775808, 33720368, 922>>

I64Min == I64(TRUE, I64MinMag)

\* -value where it does not overflow
NegI64(value) ==
    IF value.mag = <<0, 0, 0>> THEN value ELSE I64(~value.neg, value.mag)

Bang == "Bang"

Neg == "Neg"

\* the operator type of an operator lexeme
PrefixOperatorType(operator) ==
    CASE operator = <<"!">> -> Bang
      [] operator = <<"-">> -> Neg

\* eval_op_bang that takes null for a true value
EvalOpBang_NullIsTruthy(right) ==
    CASE right.type = "Boolean" -> Some(Boolean(~right.boolean.value))
      [] OTHER -> Some(Boolean(FALSE))

EvalOpBang(right) ==
    CASE right.type = "Boolean" -> Some(Boolean(~right.boolean.value))
      [] right.type = "Null" -> Some(Boolean(TRUE))
      [] OTHER -> Some(Boolean(FALSE))

\* -value overflows on i64::MIN: a build with overflow checks panics, a
\* build without them wraps around to i64::MIN
EvalOpNeg(right, overflow_checks) ==
    CASE right.type = "Integer" ->
            IF right.integer.value = I64Min
            THEN IF overflow_checks THEN Panic ELSE Some(Integer(I64Min))
            ELSE Some(Integer(NegI64(right.integer.value)))
      [] OTHER -> None

EvalPrefix(operator, right, overflow_checks) ==
    CASE operator = Bang -> EvalOpBang(right)
      [] operator = Neg -> EvalOpNeg(right, overflow_checks)

RECURSIVE EvalExpression(_, _)
\* eval_expression that applies the operator to null when the operand has
\* no value
EvalExpression_OperatorOnNull(expression, overflow_checks) ==
    CASE expression.kind = "Integer" -> Some(Integer(expression.value))
      [] expression.kind = "Boolean" -> Some(Boolean(expression.value))
      [] expression.kind = "Prefix" ->
            LET right == EvalExpression(expression.right, overflow_checks)
            IN IF right = Panic THEN Panic
               ELSE EvalPrefix(PrefixOperatorType(expression.operator),
                               IF right.kind = "Some" THEN right.value ELSE Null,
                               overflow_checks)
      [] OTHER -> Panic

EvalExpression(expression, overflow_checks) ==
    CASE expression.kind = "Integer" -> Some(Integer(expression.value))
      [] expression.kind = "Boolean" -> Some(Boolean(expression.value))
      [] expression.kind = "Prefix" ->
            LET right == EvalExpression(expression.right, overflow_checks)
            IN IF right.kind = "Some"
               THEN EvalPrefix(PrefixOperatorType(expression.operator), right.value,
                               overflow_checks)
               ELSE right
      [] OTHER -> Panic

EvalStatement(statement, overflow_checks) ==
    CASE statement.kind = "Expression" ->
            EvalExpression(statement.expression, overflow_checks)
      [] OTHER -> Panic

\* the enum Nodes that eval takes
NodesProgram(statements) == [nodes |-> "Program", statements |-> statements]

NodesStatement(statement) == [nodes |-> "Statement", statement |-> statement]

NodesExpression(expression) == [nodes |-> "Expression", expression |-> expression]

\* eval of src/src/evaluator/mod.rs on a statement or an expression
RECURSIVE EvalNode(_)
EvalNode(node) ==
    CASE node.nodes = "Statement" ->
            IF node.statement.kind = "Expression"
            THEN EvalNode(NodesExpression(node.statement.expression))
            ELSE Panic
      [] node.nodes = "Expression" ->
            CASE node.expression.kind = "Integer" -> Some(Integer(node.expression.value))
              [] node.expression.kind = "Boolean" -> Some(Boolean(node.expression.value))
              [] OTHER -> Panic

\* the for loop of eval_statements and its return; a panic ends the call
RECURSIVE EvalStatementsLoop(_, _)
EvalStatementsLoop(statements, value) ==
    IF statements = <<>> THEN value
    ELSE LET r == EvalNode(NodesStatement(Head(statements)))
         IN IF r = Panic THEN Panic ELSE EvalStatementsLoop(Tail(statements), r)

EvalStatements(statements) == EvalStatementsLoop(statements, None)

Eval(node) ==
    IF node.nodes = "Program" THEN EvalStatements(node.statements) ELSE EvalNode(node)

-----------------------------------------------------------------------------
(* Running the lexer alone: a caller that keeps calling next_token *)

\* the characters the lexer runs draw their inputs from: letters (of the
\* keyword fn), a digit, '_', the two-character starts '=' and '!', a
\* whitespace, the sentinel, a character no token starts with, a punctuation
LexChars == {"f", "n", "5", "_", "=", "!", " ", NUL, "@", ";"}

\* longest input of a lexer run
MaxLen == 4

\* calls made beyond the length of the input
ExtraCalls == 2

LexInputs == UNION {[1..n -> LexChars] : n \in 0..MaxLen}

NoResult == [kind |-> "None"]

\* no call into the evaluator is made in the lexer and parser runs
NoEvaluator == [call |-> "none"]

\* repl::start is not running in the lexer, parser and evaluator runs
NoRepl == [pc |-> "none"]

LexInit ==
    /\ \E input \in LexInputs : lexer = LexerNew(input)
    /\ tokens = <<>>
    /\ panicked = FALSE
    /\ current_token = NoToken
    /\ peek_token = NoToken
    /\ program = <<>>
    /\ errors = <<>>
    /\ pc = "lex"
    /\ result = NoResult
    /\ evaluator = NoEvaluator
    /\ repl = NoRepl

\* one call of Lexer::next_token by the caller
LexNextToken ==
    /\ pc = "lex"
    /\ ~panicked
    /\ Len(tokens) < Len(lexer.input) + ExtraCalls
    /\ LET r == NextToken(lexer)
       IN /\ lexer' = r.lexer
          /\ tokens' = Append(tokens, r.tok)
          /\ panicked' = ~r.inb
    /\ UNCHANGED <<current_token, peek_token, program, errors, pc, result, evaluator, repl>>

LexNext == LexNextToken

SpecLexer == LexInit /\ [][LexNext]_vars

-----------------------------------------------------------------------------
(* Running the parser: parse_program on a parser built from an input *)

\* the parser as one value, and the fields set from one
P == [lexer |-> lexer, current_token |-> current_token, peek_token |-> peek_token]

SetParser(p) ==
    /\ lexer' = p.lexer
    /\ current_token' = p.current_token
    /\ peek_token' = p.peek_token

\* one turn of parse_program's loop: parse_statement, then the statement
\* pushed, or its error pushed and synchronize; then next_token.  A statement
\* whose parse never returns leaves the parser inside that parse.
ParseProgramStep ==
    /\ pc = "parse_program"
    /\ ~CurTokenIs(P, "Eof")
    /\ \E stmt \in {ParseStatement(P)} :
          \/ /\ stmt.res = "Ok"
             /\ program' = Append(program, stmt.val)
             /\ SetParser(ParserNextToken(stmt.p))
             /\ UNCHANGED <<errors, pc>>
          \/ /\ stmt.res = "Err"
             /\ errors' = Append(errors, stmt.val)
             /\ SetParser(ParserNextToken(Synchronize(stmt.p)))
             /\ UNCHANGED <<program, pc>>
          \/ /\ stmt.res = "Hang"
             /\ SetParser(stmt.p)
             /\ pc' = "skip_to_semicolon"
             /\ UNCHANGED <<program, errors>>
    /\ UNCHANGED <<tokens, panicked, result, evaluator, repl>>

\* one more turn of the loop that waits for a semicolon at the end of input
SkipToSemicolonTurn ==
    /\ pc = "skip_to_semicolon"
    /\ ~CurTokenIs(P, "Semicolon")
    /\ SetParser(ParserNextToken(P))
    /\ UNCHANGED <<tokens, panicked, program, errors, pc, result, evaluator, repl>>

\* parse_program returning the program whether or not errors were pushed
ParseProgramReturn_AlwaysProgram ==
    /\ pc = "parse_program"
    /\ CurTokenIs(P, "Eof")
    /\ result' = [kind |-> "Ok", program |-> program]
    /\ pc' = "done"
    /\ UNCHANGED <<lexer, tokens, panicked, current_token, peek_token, program, errors,
                   evaluator, repl>>

\* parse_program returns: current_token is Eof
ParseProgramReturn ==
    /\ pc = "parse_program"
    /\ CurTokenIs(P, "Eof")
    /\ result' = IF errors = <<>>
                 THEN [kind |-> "Ok", program |-> program]
                 ELSE [kind |-> "Err", errors |-> errors]
    /\ pc' = "done"
    /\ UNCHANGED <<lexer, tokens, panicked, current_token, peek_token, program, errors,
                   evaluator, repl>>

ParseNext ==
    \/ ParseProgramStep
    \/ SkipToSemicolonTurn
    \/ ParseProgramReturn

(* Inputs of the parser runs: texts made of lexemes with one space between *)

RECURSIVE Join(_)
Join(ts) ==
    IF ts = <<>> THEN <<>>
    ELSE IF Len(ts) = 1 THEN Head(ts)
    ELSE Head(ts) \o <<" ">> \o Join(Tail(ts))

\* the sequences in seqs, concatenated in order
RECURSIVE Flatten(_)
Flatten(seqs) == IF seqs = <<>> THEN <<>> ELSE Head(seqs) \o Flatten(Tail(seqs))

SeqsUpTo(S, n) == UNION {[1..k -> S] : k \in 0..n}

KwLet == <<"l", "e", "t">>

KwReturn == <<"r", "e", "t", "u", "r", "n">>

KwIf == <<"i", "f">>

KwElse == <<"e", "l", "s", "e">>

KwFn == <<"f", "n">>

KwTrue == <<"t", "r", "u", "e">>

\* every short sequence of these lexemes is an input
Lexemes ==
    {<<"a">>, <<"5">>, KwLet, KwReturn, KwIf, KwFn, <<"=">>, <<";">>, <<"+">>, <<"*">>,
     <<"-">>, <<"(">>, <<")">>, <<"{">>, <<"}">>}

\* longest sequence of lexemes drawn freely
MaxToks == 3

TokenSeqs == SeqsUpTo(Lexemes, MaxToks)

\* names of the operands of a chain, by position
Names == <<"a", "b", "c", "d", "e", "f", "g", "h">>

InfixLexemes == {<<"+">>, <<"-">>, <<"*">>, <<"/">>, <<"<">>, <<">">>, <<"=", "=">>, <<"!", "=">>}

\* most infix operators in a chain of operands
MaxOps == 2

\* the operand at position i of a chain: its name, bare or negated
OperandForms(i) == {<<<<Names[i]>>>>, <<<<"-">>, <<Names[i]>>>>}

\* chains x1 op1 x2 ... opk x(k+1) of k operators
RECURSIVE Chains(_)
Chains(k) ==
    IF k = 0 THEN OperandForms(1)
    ELSE {c \o <<op>> \o x : c \in Chains(k - 1), op \in InfixLexemes, x \in OperandForms(k + 1)}

\* what stands before an expression in its statement
StatementHeads == {<<>>, <<KwLet, <<"x">>, <<"=">>>>, <<KwReturn>>}

\* what ends a statement
StatementEnds == {<<>>, <<<<";">>>>}

ChainSeqs ==
    {h \o c \o e : h \in StatementHeads, c \in UNION {Chains(k) : k \in 0..MaxOps},
                   e \in StatementEnds}

\* expressions with a parenthesised part, well formed and not
GroupSeqs ==
    LET inner == {<<<<"a">>>>, <<<<"5">>, <<"+">>, <<"5">>>>, <<<<"a">>, <<"+">>, <<"b">>>>}
        open == <<"(">>
        close == <<")">>
        after == {<<>>, <<<<"*">>, <<"2">>>>, <<<<"*">>, <<"c">>>>}
        before == {<<>>, <<<<"2">>, <<"/">>>>, <<<<"-">>>>, <<<<"c">>, <<"*">>>>}
        closes == {<<close>>, <<>>, <<<<"}">>>>}
    IN {b \o <<open>> \o i \o c \o a \o e :
            b \in before, i \in inner, c \in closes, a \in after, e \in StatementEnds}

\* statements, well formed and not, each ended by a semicolon
StatementTemplates ==
    {<<<<"a">>, <<";">>>>,
     <<KwLet, <<"x">>, <<"=">>, <<"5">>, <<";">>>>,
     <<<<")">>, <<";">>>>,
     <<KwLet, <<"x">>, <<"5">>, <<";">>>>}

\* most statements in a sequence of statement templates
MaxStmts == 3

StatementSeqs == {Flatten(ss) : ss \in SeqsUpTo(StatementTemplates, MaxStmts)}

\* the texts of a set of lexeme sequences
Texts(seqs) == {Join(ts) : ts \in seqs}

ParserInputs ==
    Texts(TokenSeqs) \cup Texts(ChainSeqs) \cup Texts(GroupSeqs) \cup Texts(StatementSeqs)

\* a parser built on one of the inputs, parse_program about to run
ParseInitOn(inputs) ==
    /\ \E input \in inputs :
          LET p == ParserNew(LexerNew(input))
          IN /\ lexer = p.lexer
             /\ current_token = p.current_token
             /\ peek_token = p.peek_token
    /\ tokens = <<>>
    /\ panicked = FALSE
    /\ program = <<>>
    /\ errors = <<>>
    /\ pc = "parse_program"
    /\ result = NoResult
    /\ evaluator = NoEvaluator
    /\ repl = NoRepl

ParseInit == ParseInitOn(ParserInputs)

SpecParser == ParseInit /\ [][ParseNext]_vars

(* Inputs of the runs on whole programs *)

Add == <<"a", "d", "d">>

\* calls, alone and inside operators, in the three kinds of statement
CallSeqs ==
    LET calls == {<<Add, <<"(">>, <<")">>>>,
                  <<Add, <<"(">>, <<"1">>, <<")">>>>,
                  <<Add, <<"(">>, <<"1">>, <<",">>, <<"2">>, <<")">>>>,
                  <<Add, <<"(">>, <<"1">>, <<",">>, <<"2">>, <<"*">>, <<"3">>, <<",">>,
                    <<"4">>, <<"+">>, <<"5">>, <<")">>>>,
                  <<<<"a">>, <<"+">>, Add, <<"(">>, <<"b">>, <<"*">>, <<"c">>, <<")">>,
                    <<"+">>, <<"d">>>>,
                  <<<<"-">>, Add, <<"(">>, <<"1">>, <<")">>>>}
    IN {h \o c \o e : h \in StatementHeads, c \in calls, e \in StatementEnds}

\* conditions and block bodies of the if expressions
IfConds == {<<<<"x">>>>, <<<<"x">>, <<"<">>, <<"y">>>>}

BlockBodies ==
    {<<>>, <<<<"x">>>>, <<<<"x">>, <<";">>>>, <<<<"x">>, <<";">>, <<"y">>>>,
     <<<<"x">>, <<"y">>, <<";">>>>}

\* if ( c ) { b }
IfText(c, b) == <<KwIf, <<"(">>>> \o c \o <<<<")">>, <<"{">>>> \o b \o <<<<"}">>>>

\* if ( c ) { b } else { a }
IfElseText(c, b, a) == IfText(c, b) \o <<KwElse, <<"{">>>> \o a \o <<<<"}">>>>

\* if expressions short of a parenthesis or a brace
BrokenIfs ==
    {<<KwIf, <<"x">>, <<")">>, <<"{">>, <<"x">>, <<"}">>>>,
     <<KwIf, <<"(">>, <<"x">>, <<"{">>, <<"x">>, <<"}">>>>,
     <<KwIf, <<"(">>, <<"x">>, <<")">>, <<"x">>, <<"}">>>>,
     <<KwIf, <<"(">>, <<"x">>, <<")">>, <<"{">>, <<"x">>, <<"}">>, KwElse, <<"y">>, <<"}">>>>}

\* if expressions, with and without else, well formed and not, and some
\* with the else not right after the closing brace
IfSeqs ==
    {IfText(c, b) \o e : c \in IfConds, b \in BlockBodies, e \in StatementEnds}
    \cup {IfElseText(c, b, a) \o e :
              c \in IfConds, b \in BlockBodies, a \in BlockBodies, e \in StatementEnds}
    \cup {t \o e : t \in BrokenIfs, e \in StatementEnds}
    \cup {IfText(c, <<<<"x">>>>) \o <<<<";">>, KwElse, <<"{">>, <<"y">>, <<"}">>>> : c \in IfConds}
    \cup {<<KwLet, <<"z">>, <<"=">>>> \o IfText(c, b) \o e :
              c \in IfConds, b \in BlockBodies, e \in StatementEnds}

\* expressions of the expression statements
ExprTemplates ==
    {<<<<"3">>, <<"+">>, <<"4">>>>, <<<<"-">>, <<"5">>, <<"*">>, <<"5">>>>, <<<<"a">>>>}

\* the texts in ts with a semicolon between each two
RECURSIVE SemicolonSeparated(_)
SemicolonSeparated(ts) ==
    IF ts = <<>> THEN <<>>
    ELSE IF Len(ts) = 1 THEN Head(ts)
    ELSE Head(ts) \o <<<<";">>>> \o SemicolonSeparated(Tail(ts))

\* expressions separated by semicolons, with and without a last semicolon
ExprSeqs ==
    {SemicolonSeparated(ts) \o e :
         ts \in SeqsUpTo(ExprTemplates, MaxStmts) \ {<<>>}, e \in StatementEnds}

\* statements ended by a semicolon: well formed, and with one syntax error
GoodStatements ==
    {<<<<"a">>, <<";">>>>, <<KwLet, <<"x">>, <<"=">>, <<"5">>, <<";">>>>}

BadStatements ==
    {<<<<")">>, <<";">>>>,
     <<KwLet, <<"x">>, <<"5">>, <<";">>>>,
     <<<<"a">>, <<"+">>, <<";">>>>,
     <<KwLet, <<"x">>, <<"=">>, <<";">>>>}

ErrorSeqs == {Flatten(ss) : ss \in SeqsUpTo(GoodStatements \cup BadStatements, MaxStmts)}

\* integer literals up to i64::MAX, 9223372036854775807
SmallLiterals ==
    {<<"0">>,
     <<"7">>,
     <<"0", "0", "7">>,
     <<"1", "0">>,
     <<"9", "9", "9", "9", "9", "9", "9", "9">>,
     <<"1", "0", "0", "0", "0", "0", "0", "0", "0">>,
     <<"2", "1", "4", "7", "4", "8", "3", "6", "4", "8">>,
     <<"9", "2", "2", "3", "3", "7", "2", "0", "3", "6", "8", "5", "4", "7", "7", "5", "8", "0", "7">>,
     <<"0", "0", "0", "0", "9", "2", "2", "3", "3", "7", "2", "0", "3", "6", "8", "5", "4", "7", "7", "5", "8", "0", "7">>}

\* integer literals above i64::MAX
LargeLiterals ==
    {<<"9", "2", "2", "3", "3", "7", "2", "0", "3", "6", "8", "5", "4", "7", "7", "5", "8", "0", "8">>,
     <<"9", "2", "2", "3", "3", "7", "2", "0", "3", "6", "8", "5", "4", "7", "7", "5", "8", "1", "0">>,
     <<"1", "0", "0", "0", "0", "0", "0", "0", "0", "0", "0", "0", "0", "0", "0", "0", "0", "0", "0", "0">>,
     <<"1", "8", "4", "4", "6", "7", "4", "4", "0", "7", "3", "7", "0", "9", "5", "5", "1", "6", "1", "6">>}

\* an integer literal as a statement, in a let, after a minus, before an
\* operator, and between two other statements
IntSeqs ==
    UNION {{<<l, <<";">>>>,
            <<KwLet, <<"x">>, <<"=">>, l, <<";">>>>,
            <<<<"-">>, l, <<";">>>>,
            <<l, <<"+">>, <<"1">>, <<";">>>>,
            <<<<"a">>, <<";">>, l, <<";">>, <<"b">>, <<";">>>>} :
               l \in SmallLiterals \cup LargeLiterals}

\* a statement that fails, tokens that start and end no statement, then
\* nothing, a statement end or a statement that starts with a keyword
SyncHeads == {<<KwLet, <<"1">>>>, <<<<")">>>>}

SyncJunk == {<<>>, <<<<"2">>>>, <<<<"2">>, <<"+">>>>}

SyncFollows ==
    {<<>>,
     <<<<";">>, <<"a">>, <<";">>>>,
     <<<<"}">>, <<"a">>, <<";">>>>,
     <<KwLet, <<"y">>, <<"=">>, <<"3">>, <<";">>>>,
     <<KwReturn, <<"3">>, <<";">>>>,
     <<KwIf, <<"(">>, <<"x">>, <<")">>, <<"{">>, <<"x">>, <<"}">>, <<";">>>>,
     <<KwFn, <<"(">>, <<")">>, <<"{">>, <<"}">>, <<";">>>>,
     <<KwElse, <<"a">>, <<";">>>>}

SyncSeqs == {h \o j \o f : h \in SyncHeads, j \in SyncJunk, f \in SyncFollows}

\* a let or return statement, then its semicolon, or another expression
\* before or after the semicolon
LetHeads == {<<KwLet, <<"x">>, <<"=">>, <<"5">>>>, <<KwReturn, <<"5">>>>}

LetTails ==
    {<<<<";">>>>, <<<<"y">>, <<";">>>>, <<<<";">>, <<"y">>, <<";">>>>,
     <<<<"y">>, <<";">>, <<"a">>, <<";">>>>}

LetSeqs == {h \o t : h \in LetHeads, t \in LetTails}

\* parameter lists of identifiers, and lists with a token that is no
\* identifier in some position
GoodParameters ==
    {<<>>, <<<<"x">>>>, <<<<"x">>, <<",">>, <<"y">>>>,
     <<<<"x">>, <<",">>, <<"y">>, <<",">>, <<"z">>>>}

BadParameters ==
    {<<<<"1">>, <<",">>, <<"2">>>>,
     <<<<"x">>, <<",">>, <<"1">>>>,
     <<<<"x">>, <<"y">>>>,
     <<<<",">>, <<"x">>>>,
     <<<<"x">>, <<",">>>>}

\* fn ( ps ) { } ;
FnText(ps) == <<KwFn, <<"(">>>> \o ps \o <<<<")">>, <<"{">>, <<"}">>, <<";">>>>

\* function literals; the last two lack the closing parenthesis
FnSeqs ==
    {FnText(ps) : ps \in GoodParameters \cup BadParameters}
        \cup {<<KwFn, <<"(">>, <<"x">>, <<"{">>, <<"}">>, <<";">>>>,
              <<KwFn, <<"(">>, <<"x">>, <<",">>, <<"y">>, <<"{">>, <<"}">>, <<";">>>>}

\* blocks that the input ends before their closing brace
UnclosedBlocks ==
    {<<KwIf, <<"(">>, <<"x">>, <<")">>, <<"{">>, <<"x">>>>,
     <<KwIf, <<"(">>, <<"x">>, <<")">>, <<"{">>, <<"x">>, <<";">>>>,
     <<KwIf, <<"(">>, <<"x">>, <<")">>, <<"{">>>>,
     <<KwIf, <<"(">>, <<"x">>, <<")">>, <<"{">>, <<"x">>, <<"}">>, KwElse, <<"{">>, <<"y">>, <<";">>>>,
     <<KwFn, <<"(">>, <<")">>, <<"{">>, <<"x">>, <<";">>>>,
     <<KwFn, <<"(">>, <<"x">>, <<")">>, <<"{">>>>}

ProgramInputs ==
    Texts(CallSeqs) \cup Texts(IfSeqs) \cup Texts(ExprSeqs) \cup Texts(ErrorSeqs)
        \cup Texts(IntSeqs) \cup Texts(SyncSeqs) \cup Texts(LetSeqs) \cup Texts(FnSeqs)
        \cup Texts(UnclosedBlocks)

ProgramsInit == ParseInitOn(ProgramInputs)

SpecPrograms == ProgramsInit /\ [][ParseNext]_vars

-----------------------------------------------------------------------------
(* Running the evaluator: eval on a parsed program, eval_statement and       *)
(* eval_expression on a parsed statement and expression, eval_prefix on an   *)
(* operator and an object                                                    *)

KwFalse == <<"f", "a", "l", "s", "e">>

\* the digits of i64::MAX, 9223372036854775807
I64MaxLiteral ==
    <<"9", "2", "2", "3", "3", "7", "2", "0", "3", "6", "8", "5", "4", "7", "7", "5", "8", "0", "7">>

\* the digits of 9223372036854775808, one above i64::MAX
I64MinMagLiteral ==
    <<"9", "2", "2", "3", "3", "7", "2", "0", "3", "6", "8", "5", "4", "7", "7", "5", "8", "0", "8">>

\* most statements of an evaluated program
MaxEvalStmts == 2

\* the statements of the evaluated programs, each ended by a semicolon
EvalTemplates ==
    {<<<<"5">>>>,
     <<<<"1", "0">>>>,
     <<KwTrue>>,
     <<KwFalse>>,
     <<<<"!">>, KwTrue>>,
     <<<<"!">>, <<"!">>, <<"5">>>>,
     <<<<"!">>, <<"!">>, <<"0">>>>,
     <<<<"-">>, <<"1", "0">>>>,
     <<<<"-">>, KwTrue>>,
     <<<<"-">>, <<"!">>, <<"5">>>>,
     <<<<"!">>, <<"-">>, KwTrue>>,
     <<<<"!">>, <<"(">>, <<"-">>, KwTrue, <<")">>>>,
     <<<<"-">>, I64MaxLiteral>>,
     <<<<"-">>, <<"-">>, I64MaxLiteral>>,
     <<<<"-">>, <<"!">>, <<"-">>, I64MaxLiteral>>,
     <<<<"-">>, <<"-">>, I64MinMagLiteral>>,
     <<<<"x">>>>,
     <<<<"1">>, <<"+">>, <<"2">>>>,
     <<KwIf, <<"(">>, <<"x">>, <<")">>, <<"{">>, <<"x">>, <<"}">>>>,
     <<KwFn, <<"(">>, <<")">>, <<"{">>, <<"}">>>>,
     <<KwLet, <<"x">>, <<"=">>, <<"y">>>>,
     <<KwReturn, <<"5">>>>}

\* the evaluated inputs: sequences of these statements, each ended by a
\* semicolon, and the same without the last semicolon
EvalInputs ==
    LET ended(ts) == Flatten([i \in 1..Len(ts) |-> Append(ts[i], <<";">>)])
    IN UNION {{Join(ended(ts)), Join(SubSeq(ended(ts), 1, Len(ended(ts)) - 1))} :
                 ts \in SeqsUpTo(EvalTemplates, MaxEvalStmts)}

\* the objects handed to eval_prefix: integers around zero and at the ends
\* of i64, the booleans, null
EvalObjects ==
    {Integer(I64Of(0)), Integer(I64Of(5)), Integer(I64(TRUE, <<5, 0, 0>>)),
     Integer(I64(FALSE, I64MaxMag)), Integer(I64(TRUE, I64MaxMag)), Integer(I64Min),
     Boolean(TRUE), Boolean(FALSE), Null}

\* a call into the evaluator before its first step; eval_statements has set
\* its result to None
EvalCall(call, arg, overflow_checks) ==
    [call |-> call, arg |-> arg, overflow_checks |-> overflow_checks,
     statements |-> IF call = "eval" THEN arg ELSE <<>>,
     result |-> None, pc |-> "called"]

\* a run parses an input and evaluates what the parser returned, or it
\* starts in a call of eval_prefix on an operator and an object
EvalInit ==
    \/ ParseInitOn(EvalInputs)
    \/ /\ lexer = LexerNew(<<>>)
       /\ tokens = <<>>
       /\ panicked = FALSE
       /\ current_token = NoToken
       /\ peek_token = NoToken
       /\ program = <<>>
       /\ errors = <<>>
       /\ pc = "eval"
       /\ result = NoResult
       /\ repl = NoRepl
       /\ \E operator \in {Bang, Neg}, right \in EvalObjects, overflow_checks \in BOOLEAN :
             evaluator = EvalCall("eval_prefix", [operator |-> operator, right |-> right],
                                  overflow_checks)

\* eval(Nodes::Program(program)) on the program parse_program returned
EvalProgram ==
    /\ pc = "done"
    /\ result.kind = "Ok"
    /\ \E overflow_checks \in BOOLEAN :
          evaluator' = EvalCall("eval", result.program, overflow_checks)
    /\ pc' = "eval"
    /\ UNCHANGED <<lexer, tokens, panicked, current_token, peek_token, program, errors,
                   result, repl>>

\* one turn of the for loop of eval_statements
EvalStatementsStep ==
    /\ pc = "eval"
    /\ evaluator.call = "eval"
    /\ evaluator.pc = "called"
    /\ evaluator.statements # <<>>
    /\ LET r == Eval(NodesStatement(Head(evaluator.statements)))
       IN evaluator' = IF r = Panic
                       THEN [evaluator EXCEPT !.pc = "panicked"]
                       ELSE [evaluator EXCEPT !.result = r,
                                              !.statements = Tail(evaluator.statements)]
    /\ UNCHANGED <<lexer, tokens, panicked, current_token, peek_token, program, errors, pc,
                   result, repl>>

\* eval_statements returns its result after the last statement
EvalStatementsReturn ==
    /\ pc = "eval"
    /\ evaluator.call = "eval"
    /\ evaluator.pc = "called"
    /\ evaluator.statements = <<>>
    /\ evaluator' = [evaluator EXCEPT !.pc = "returned"]
    /\ UNCHANGED <<lexer, tokens, panicked, current_token, peek_token, program, errors, pc,
                   result, repl>>

\* eval_statement on a statement of the program parse_program returned
EvalStatementCall ==
    /\ pc = "done"
    /\ result.kind = "Ok"
    /\ \E i \in 1..Len(result.program), overflow_checks \in BOOLEAN :
          LET call == EvalCall("eval_statement", result.program[i], overflow_checks)
              value == EvalStatement(call.arg, overflow_checks)
          IN evaluator' = IF value = Panic
                          THEN [call EXCEPT !.pc = "panicked"]
                          ELSE [call EXCEPT !.pc = "returned", !.result = value]
    /\ pc' = "eval"
    /\ UNCHANGED <<lexer, tokens, panicked, current_token, peek_token, program, errors,
                   result, repl>>

\* eval_expression on the expression of an expression statement of the
\* program parse_program returned
EvalExpressionCall ==
    /\ pc = "done"
    /\ result.kind = "Ok"
    /\ \E i \in 1..Len(result.program), overflow_checks \in BOOLEAN :
          /\ result.program[i].kind = "Expression"
          /\ LET call == EvalCall("eval_expression", result.program[i].expression,
                                  overflow_checks)
                 value == EvalExpression(call.arg, overflow_checks)
             IN evaluator' = IF value = Panic
                             THEN [call EXCEPT !.pc = "panicked"]
                             ELSE [call EXCEPT !.pc = "returned", !.result = value]
    /\ pc' = "eval"
    /\ UNCHANGED <<lexer, tokens, panicked, current_token, peek_token, program, errors,
                   result, repl>>

\* eval_prefix on the operator and the object of the call
EvalPrefixCall ==
    /\ pc = "eval"
    /\ evaluator.call = "eval_prefix"
    /\ evaluator.pc = "called"
    /\ LET value == EvalPrefix(evaluator.arg.operator, evaluator.arg.right,
                               evaluator.overflow_checks)
       IN evaluator' = IF value = Panic
                       THEN [evaluator EXCEPT !.pc = "panicked"]
                       ELSE [evaluator EXCEPT !.pc = "returned", !.result = value]
    /\ UNCHANGED <<lexer, tokens, panicked, current_token, peek_token, program, errors, pc,
                   result, repl>>

EvalNext ==
    \/ ParseProgramStep
    \/ SkipToSemicolonTurn
    \/ ParseProgramReturn
    \/ EvalProgram
    \/ EvalStatementsStep
    \/ EvalStatementsReturn
    \/ EvalStatementCall
    \/ EvalExpressionCall
    \/ EvalPrefixCall

SpecEvaluator == EvalInit /\ [][EvalNext]_vars

-----------------------------------------------------------------------------
(* Running expect_peek: calls of expect_peek on a parser built from an       *)
(* input, and parse_program on the same inputs                               *)

\* the token types the parser hands to expect_peek
ExpectKinds == {"Ident", "Assign", "LParen", "RParen", "LBrace"}

ExpectLexemes ==
    {KwLet, <<"x">>, <<"5">>, <<"=">>, <<";">>, <<"(">>, <<")">>, <<"{">>}

\* longest sequence of lexemes of these runs drawn freely
MaxExpectToks == 3

ExpectInputs ==
    Texts(SeqsUpTo(ExpectLexemes, MaxExpectToks))
        \cup Texts({<<KwLet, <<"x">>, <<"5">>, <<";">>>>,
                    <<KwLet, <<"x">>, <<"=">>, <<"y">>>>,
                    <<KwLet, <<"x">>, <<"5">>, <<";">>, <<"a">>, <<";">>>>})

ExpectInit ==
    /\ \E input \in ExpectInputs :
          LET p == ParserNew(LexerNew(input))
          IN /\ lexer = p.lexer
             /\ current_token = p.current_token
             /\ peek_token = p.peek_token
    /\ tokens = <<>>
    /\ panicked = FALSE
    /\ program = <<>>
    /\ errors = <<>>
    /\ pc \in {"expect_peek", "parse_program"}
    /\ result = NoResult
    /\ evaluator = NoEvaluator
    /\ repl = NoRepl

\* one call of expect_peek; result holds what the last call returned
ExpectPeekCall ==
    /\ pc = "expect_peek"
    /\ \E tt \in ExpectKinds :
          LET r == ExpectPeek(P, tt)
          IN /\ SetParser(r.p)
             /\ result' = [kind |-> "ExpectPeek", type |-> tt, res |-> r.res, val |-> r.val]
    /\ UNCHANGED <<tokens, panicked, program, errors, pc, evaluator, repl>>

ExpectNext ==
    \/ ExpectPeekCall
    \/ ParseProgramStep
    \/ SkipToSemicolonTurn
    \/ ParseProgramReturn

SpecExpectPeek == ExpectInit /\ [][ExpectNext]_vars

-----------------------------------------------------------------------------
(* The REPL: src/src/repl.rs.  start reads lines from its reader and writes  *)
(* to its writer; `?` on a failed read or write returns the error.           *)

\* most lines the reader holds
MaxLines == 2

\* calls of parse_program on one line that the runs follow
MaxCalls == 3

\* the lines of the reader, each with its newline: statements that parse,
\* statements that fail, an empty line, a let that no semicolon ends
ReplLines ==
    {Join(ts) \o <<"\n">> :
        ts \in {<<<<"x">>, <<";">>>>,
                <<KwLet, <<"x">>, <<"=">>, <<"5">>, <<";">>>>,
                <<KwLet, <<"x">>, <<"5">>, <<";">>>>,
                <<<<")">>, <<"2">>>>,
                <<KwLet, <<"x">>, <<"5">>, <<";">>, <<"+">>, <<";">>>>,
                <<KwLet, <<"x">>, <<"=">>, <<"y">>>>,
                <<>>}}

\* what start writes
WritePrompt == [write |-> "PROMPT"]

WriteProgram(statements) == [write |-> "program", program |-> statements]

WriteMonkeyFace == [write |-> "MONKEY_FACE"]

WriteWoops == [write |-> "Woops! We ran into some monkey business here!"]

WriteParserErrors == [write |-> " parser errors:"]

WriteError(error) == [write |-> "error", error |-> error]

\* start is called on a reader that holds some lines; out is what the
\* current turn of the outer loop has written
ReplInit ==
    /\ lexer = LexerNew(<<>>)
    /\ tokens = <<>>
    /\ panicked = FALSE
    /\ current_token = NoToken
    /\ peek_token = NoToken
    /\ program = <<>>
    /\ errors = <<>>
    /\ pc = "start"
    /\ result = NoResult
    /\ evaluator = NoEvaluator
    /\ \E inp \in SeqsUpTo(ReplLines, MaxLines) :
          repl = [pc |-> "prompt", inp |-> inp, eof |-> FALSE, out |-> <<>>, calls |-> 0]

\* out.write_all(PROMPT), out.flush()
ReplPrompt ==
    /\ repl.pc = "prompt"
    /\ repl' = [repl EXCEPT !.pc = "read_line", !.out = <<WritePrompt>>]
    /\ UNCHANGED <<lexer, tokens, panicked, current_token, peek_token, program, errors, pc,
                   result, evaluator>>

\* reader.read_line(&mut line): the next line, or nothing at the end of the
\* input, where it returns Ok(0) and line stays empty; then Lexer::new(&line)
\* and Parser::new(lexer)
ReplReadLine ==
    /\ repl.pc = "read_line"
    /\ \E line \in {IF repl.inp = <<>> THEN <<>> ELSE Head(repl.inp)} :
          \E parser \in {ParserNew(LexerNew(line))} : SetParser(parser)
    /\ repl' = [repl EXCEPT !.pc = "loop",
                            !.inp = IF repl.inp = <<>> THEN <<>> ELSE Tail(repl.inp),
                            !.eof = (repl.inp = <<>>),
                            !.calls = 0]
    /\ UNCHANGED <<tokens, panicked, program, errors, pc, result, evaluator>>

\* the inner loop calling parse_program with errors left from the call
\* before
ReplParseProgram_KeepErrors ==
    /\ repl.pc = "loop"
    /\ repl.calls < MaxCalls
    /\ program' = <<>>
    /\ pc' = "parse_program"
    /\ repl' = [repl EXCEPT !.pc = "parse_program", !.calls = repl.calls + 1]
    /\ UNCHANGED <<lexer, tokens, panicked, current_token, peek_token, errors, result,
                   evaluator>>

\* the inner loop calls parser.parse_program(): program and errors start
\* empty
ReplParseProgram ==
    /\ repl.pc = "loop"
    /\ repl.calls < MaxCalls
    /\ program' = <<>>
    /\ errors' = <<>>
    /\ pc' = "parse_program"
    /\ repl' = [repl EXCEPT !.pc = "parse_program", !.calls = repl.calls + 1]
    /\ UNCHANGED <<lexer, tokens, panicked, current_token, peek_token, result, evaluator>>

\* Ok(program): writeln!(out, "{}", program) and break
ReplWriteProgram ==
    /\ repl.pc = "parse_program"
    /\ pc = "done"
    /\ result.kind = "Ok"
    /\ repl' = [repl EXCEPT !.pc = "prompt",
                            !.out = Append(repl.out, WriteProgram(result.program))]
    /\ pc' = "start"
    /\ UNCHANGED <<lexer, tokens, panicked, current_token, peek_token, program, errors,
                   result, evaluator>>

\* Err(errors): the face, the two headers and the errors are written and
\* the inner loop goes on
ReplWriteErrors ==
    /\ repl.pc = "parse_program"
    /\ pc = "done"
    /\ result.kind = "Err"
    /\ repl' = [repl EXCEPT
                   !.pc = "loop",
                   !.out = repl.out \o <<WriteMonkeyFace, WriteWoops, WriteParserErrors>>
                              \o [i \in 1..Len(result.errors) |-> WriteError(result.errors[i])]]
    /\ pc' = "start"
    /\ UNCHANGED <<lexer, tokens, panicked, current_token, peek_token, program, errors,
                   result, evaluator>>

\* a write or the read fails and `?` returns the error from start
ReplIoError ==
    /\ \/ repl.pc \in {"prompt", "read_line"}
       \/ repl.pc = "parse_program" /\ pc = "done"
    /\ repl' = [repl EXCEPT !.pc = "returned"]
    /\ UNCHANGED <<lexer, tokens, panicked, current_token, peek_token, program, errors, pc,
                   result, evaluator>>

ReplNext ==
    \/ ReplPrompt
    \/ ReplReadLine
    \/ ReplParseProgram
    \/ ParseProgramStep
    \/ SkipToSemicolonTurn
    \/ ParseProgramReturn
    \/ ReplWriteProgram
    \/ ReplWriteErrors
    \/ ReplIoError

SpecRepl == ReplInit /\ [][ReplNext]_vars

\* WF_vars(ReplReadLine) with its ENABLED written out: read_line can return
\* exactly where start stands at it
ReplReadLineFair ==
    []<>(repl.pc # "read_line") \/ []<><<ReplReadLine>>_vars

\* WF_vars(ParseProgramStep) with its ENABLED written out: the loop of
\* parse_program takes a turn exactly where current_token is not Eof
ParseProgramStepFair ==
    []<>~(pc = "parse_program" /\ ~CurTokenIs(P, "Eof")) \/ []<><<ParseProgramStep>>_vars

\* start keeps running: the thread is never stopped before a step it can
\* take.  A failing read or write is up to the reader and the writer and has
\* no fairness.
SpecReplFair ==
    /\ SpecRepl
    /\ WF_vars(ReplPrompt)
    /\ ReplReadLineFair
    /\ WF_vars(ReplParseProgram)
    /\ ParseProgramStepFair
    /\ WF_vars(SkipToSemicolonTurn)
    /\ WF_vars(ParseProgramReturn)
    /\ WF_vars(ReplWriteProgram)
    /\ WF_vars(ReplWriteErrors)

-----------------------------------------------------------------------------
(* Lexer claims *)

LastToken == tokens[Len(tokens)]

\* the input is used up: the lexer stands past the last character
LexAtEnd == lexer.next_position >= Len(lexer.input) /\ lexer.ch = NUL

\* C1 (lexer totality): for every input, next_token yields Eof after finitely
\* many calls (at most one call per character, then Eof), and every call made
\* after the first Eof yields Eof too.
C1_LexerTotality ==
    /\ Len(tokens) > Len(lexer.input) => \E i \in 1..Len(tokens) : tokens[i].type = "Eof"
    /\ \A i, j \in 1..Len(tokens) :
          (i < j /\ tokens[i].type = "Eof") => tokens[j].type = "Eof"

\* literals of the tokens that are not Eof, in order
RECURSIVE NonEofLiterals(_)
NonEofLiterals(toks) ==
    IF toks = <<>> THEN <<>>
    ELSE IF Head(toks).type = "Eof" THEN NonEofLiterals(Tail(toks))
         ELSE <<Head(toks).literal>> \o NonEofLiterals(Tail(toks))

IsPrefix(s, t) == Len(s) <= Len(t) /\ SubSeq(t, 1, Len(s)) = s

\* text is the literals lits, in order, with only whitespace between,
\* before and after them
RECURSIVE Interleaves(_, _)
Interleaves(text, lits) ==
    \/ /\ lits = <<>>
       /\ \A i \in 1..Len(text) : text[i] \in Whitespace
    \/ /\ lits # <<>>
       /\ IsPrefix(Head(lits), text)
       /\ Interleaves(SubSeq(text, Len(Head(lits)) + 1, Len(text)), Tail(lits))
    \/ /\ lits # <<>>
       /\ text # <<>>
       /\ Head(text) \in Whitespace
       /\ Interleaves(Tail(text), lits)

\* the input holds no sentinel character, so that Eof marks its end
NulFree(input) == \A i \in 1..Len(input) : input[i] # NUL

\* C2 (token-stream faithfulness): once the whole input is lexed, the literals
\* of the non-Eof tokens, with only whitespace between them, are the input: no
\* character is dropped or duplicated.  Stated for inputs without the sentinel
\* character, where the first Eof is the end of the input.
C2_Faithfulness ==
    (NulFree(lexer.input) /\ Len(tokens) > 0 /\ LastToken.type = "Eof")
        => Interleaves(lexer.input, NonEofLiterals(tokens))

\* 0-based position of the first non-whitespace character at or after i
\* (Len(input) when there is none)
RECURSIVE FirstNonWs(_, _)
FirstNonWs(input, i) ==
    IF i >= Len(input) THEN Len(input)
    ELSE IF input[i + 1] \in Whitespace THEN FirstNonWs(input, i + 1)
         ELSE i

\* length of the maximal run of characters of class, from 0-based position i
RECURSIVE RunLen(_, _, _)
RunLen(input, i, class) ==
    IF i < Len(input) /\ input[i + 1] \in class THEN 1 + RunLen(input, i + 1, class) ELSE 0

IdentChars == Letters \cup Digits \cup {"_"}

\* the keyword table as the specification gives it
SpecKeyword(lit) ==
    IF lit = <<"f", "n">> THEN "Function"
    ELSE IF lit = <<"l", "e", "t">> THEN "Let"
    ELSE IF lit = <<"t", "r", "u", "e">> THEN "True"
    ELSE IF lit = <<"f", "a", "l", "s", "e">> THEN "False"
    ELSE IF lit = <<"i", "f">> THEN "If"
    ELSE IF lit = <<"e", "l", "s", "e">> THEN "Else"
    ELSE IF lit = <<"r", "e", "t", "u", "r", "n">> THEN "Return"
    ELSE "Ident"

\* a call of next_token happened in this step
Called == Len(tokens') = Len(tokens) + 1

\* 0-based position of the character the call starts on, after whitespace
StartPos == FirstNonWs(lexer.input, lexer.current_position)

\* the call starts on a character of the input (not on the end sentinel)
StartsOnChar == lexer.ch # NUL /\ StartPos < Len(lexer.input)

StartChar == lexer.input[StartPos + 1]

\* after the call the lexer stands on 0-based position p of the input, or on
\* the end sentinel when p is past the last character
StandsOn(l, p) ==
    IF p < Len(l.input)
    THEN l.ch = l.input[p + 1] /\ l.current_position = p /\ l.next_position = p + 1
    ELSE l.ch = NUL /\ l.next_position = Len(l.input)

C3_Step ==
    (Called /\ StartsOnChar /\ StartChar \in IdentChars) =>
        LET class == IF StartChar \in Digits THEN Digits ELSE IdentChars
            n == RunLen(lexer.input, StartPos, class)
            lit == SubSeq(lexer.input, StartPos + 1, StartPos + n)
            t == tokens'[Len(tokens')]
        IN /\ t.literal = lit
           /\ t.type = IF StartChar \in Digits THEN "Int" ELSE SpecKeyword(lit)
           /\ StandsOn(lexer', StartPos + n)

\* C3: a call of next_token that starts on a letter, '_' or a digit returns
\* the whole maximal run of identifier characters (of digits) as the literal,
\* with kind Int or the keyword kind or Ident, and leaves the lexer on the
\* first character after the run, also when the run ends the input.
C3_MaximalRun == [][C3_Step]_vars

C4_Step ==
    (Called /\ StartsOnChar /\ StartChar \in {"=", "!"}) =>
        LET double == StartPos + 1 < Len(lexer.input) /\ lexer.input[StartPos + 2] = "="
            t == tokens'[Len(tokens')]
        IN IF double
           THEN /\ t = Token(IF StartChar = "=" THEN "Eq" ELSE "NotEq", <<StartChar, "=">>)
                /\ StandsOn(lexer', StartPos + 2)
           ELSE /\ t = Token(IF StartChar = "=" THEN "Assign" ELSE "Bang", <<StartChar>>)
                /\ StandsOn(lexer', StartPos + 1)

\* C4: a call of next_token that starts on '=' or '!' returns Eq or NotEq with
\* the two-character literal and consumes both characters when the following
\* character is '=', and otherwise returns Assign or Bang with the single
\* character and consumes one; the next call starts right after the token.
C4_TwoCharTokens == [][C4_Step]_vars

\* both cases of C4 happened in one run: a two-character token and a
\* single-character '=' or '!', each followed by a further call
C4_Witness ==
    /\ \E i \in 1..Len(tokens) : i < Len(tokens) /\ tokens[i].type \in {"Eq", "NotEq"}
    /\ \E i \in 1..Len(tokens) : i < Len(tokens) /\ tokens[i].type \in {"Assign", "Bang"}

\* the characters some token other than Illegal starts with
KnownStarts ==
    IdentChars \cup {"=", "+", "-", "!", "*", "/", "<", ">", ",", ";", "(", ")", "{", "}"}

\* no slice or index left the buffer
LexerInBounds(l, p) ==
    /\ ~p
    /\ l.next_position <= Len(l.input)
    /\ l.current_position <= l.next_position

C5_Step ==
    /\ LexerInBounds(lexer', panicked')
    /\ (Called /\ StartsOnChar /\ StartChar \notin KnownStarts /\ StartChar # NUL) =>
          tokens'[Len(tokens')] = Token("Illegal", <<StartChar>>)

\* C5: the lexer never fails: in every state reached by calls of next_token on
\* any input, no slice of the buffer is out of bounds and next_position never
\* exceeds the input length, and a character that starts no known token comes
\* back as an Illegal token whose literal is that character.
C5_NeverFails == LexerInBounds(lexer, panicked) /\ [][C5_Step]_vars

\* an Illegal token was returned and calls went on past the end of the input
C5_Witness ==
    /\ \E i \in 1..Len(tokens) : tokens[i] = Token("Illegal", <<"@">>)
    /\ Len(tokens) > Len(lexer.input)
    /\ LexAtEnd

-----------------------------------------------------------------------------
(* Parser claims *)

\* the token kinds of the operator and punctuation lexemes
LexemeType(lex) ==
    IF lex = <<"+">> THEN "Plus"
    ELSE IF lex = <<"-">> THEN "Minus"
    ELSE IF lex = <<"*">> THEN "Star"
    ELSE IF lex = <<"/">> THEN "Slash"
    ELSE IF lex = <<"<">> THEN "Lt"
    ELSE IF lex = <<">">> THEN "Gt"
    ELSE IF lex = <<"=", "=">> THEN "Eq"
    ELSE IF lex = <<"!", "=">> THEN "NotEq"
    ELSE IF lex = <<"!">> THEN "Bang"
    ELSE IF lex = <<"(">> THEN "LParen"
    ELSE "Illegal"

\* the binding levels of the infix operators as the specification orders them
Level(lex) ==
    IF lex \in {<<"=", "=">>, <<"!", "=">>} THEN 1
    ELSE IF lex \in {<<"<">>, <<">">>} THEN 2
    ELSE IF lex \in {<<"+">>, <<"-">>} THEN 3
    ELSE 4

\* expected trees
IdentOf(name) == Identifier(Token("Ident", <<name>>))

IntOf(digit) == IntegerLiteral(Token("Int", <<digit>>), I64Of(DigitValue(digit)))

InfixOf(left, lex, right) == InfixExpression(Token(LexemeType(lex), lex), left, right)

PrefixOf(lex, right) == PrefixExpression(Token(LexemeType(lex), lex), right)

\* parse_program returned the program of one expression statement whose
\* first token is first and whose expression is expr
ReturnedExpression(first, expr) ==
    result = [kind |-> "Ok", program |-> <<ExpressionStatement(first, expr)>>]

\* parse_program has returned from the run on the text of lexemes ts
DoneOn(ts) == pc = "done" /\ lexer.input = Join(ts)

\* C6, the step: a turn of parse_program's loop appends the statement to the
\* program when its parse succeeded and leaves the errors alone, appends the
\* error and leaves the program alone when it failed, and goes on with the
\* next statement either way; the return is the program exactly when no
\* error was pushed, and the errors otherwise.
C6_Step ==
    /\ (pc = "parse_program" /\ pc' = "parse_program") =>
          \/ Len(program') = Len(program) + 1 /\ errors' = errors
                /\ SubSeq(program', 1, Len(program)) = program
          \/ Len(errors') = Len(errors) + 1 /\ program' = program
                /\ SubSeq(errors', 1, Len(errors)) = errors
    /\ (pc = "parse_program" /\ pc' = "done") =>
          /\ errors = <<>> => result' = [kind |-> "Ok", program |-> program]
          /\ errors # <<>> => result' = [kind |-> "Err", errors |-> errors]

\* the kinds of the statements of the well-formed templates in ss, in order,
\* and the number of the others
TemplateValid(t) == t \in {<<<<"a">>, <<";">>>>, <<KwLet, <<"x">>, <<"=">>, <<"5">>, <<";">>>>}

TemplateKind(t) == IF Head(t) = KwLet THEN "Let" ELSE "Expression"

RECURSIVE ValidKinds(_)
ValidKinds(ss) ==
    IF ss = <<>> THEN <<>>
    ELSE (IF TemplateValid(Head(ss)) THEN <<TemplateKind(Head(ss))>> ELSE <<>>)
             \o ValidKinds(Tail(ss))

\* C6, the outcome: on a text of statements, some failing, parse_program
\* has parsed every well-formed statement before and after a failed one, in
\* source order, a failed statement has given an error and no statement, and
\* the program is returned exactly when no statement failed.
C6_Outcome ==
    \A ss \in SeqsUpTo(StatementTemplates, MaxStmts) :
        DoneOn(Flatten(ss)) =>
            /\ Len(program) = Len(ValidKinds(ss))
            /\ \A i \in 1..Len(program) : program[i].kind = ValidKinds(ss)[i]
            /\ Len(errors) = Len(ss) - Len(ValidKinds(ss))
            /\ (result.kind = "Ok") = (Len(ValidKinds(ss)) = Len(ss))
            /\ result.kind = "Ok" => result.program = program
            /\ result.kind = "Err" => result.errors = errors

C7_Terminates ==
    pc = "skip_to_semicolon" => (CurTokenIs(P, "Semicolon") \/ ParserNextToken(P) # P)

\* the operand of a chain in its two forms, and the tree expected for it
OperandTree(form) ==
    IF Len(form) = 1 THEN IdentOf(form[1][1]) ELSE PrefixOf(<<"-">>, IdentOf(form[2][1]))

FirstToken(form) ==
    IF Len(form) = 1 THEN Token("Ident", form[1]) ELSE Token("Minus", <<"-">>)

\* C8: infix operators are left-associative at every precedence level: for
\* operands a, b, c and two infix operators op1, op2 of one level,
\* a op1 b op2 c parses as Infix(Infix(a, op1, b), op2, c).
C8_LeftAssociative ==
    \A op1, op2 \in InfixLexemes : \A e \in StatementEnds :
    \A a \in OperandForms(1), b \in OperandForms(2), c \in OperandForms(3) :
        (Level(op1) = Level(op2) /\ DoneOn(a \o <<op1>> \o b \o <<op2>> \o c \o e)) =>
            ReturnedExpression(FirstToken(a),
                InfixOf(InfixOf(OperandTree(a), op1, OperandTree(b)), op2, OperandTree(c)))

\* C9: binding power is ordered Equals < Ordering < Sum < Product < Prefix:
\* without parentheses the operator of the higher level groups first
\* whichever comes first (a + b * c is (a + (b * c)), a * b + c is
\* ((a * b) + c)), and the operand of a prefix operator never takes in a
\* following infix operator (-a * b is ((-a) * b)).
C9_BindingPower ==
    \A op1, op2 \in InfixLexemes : \A e \in StatementEnds :
    \A a \in OperandForms(1), b \in OperandForms(2), c \in OperandForms(3) :
        /\ (Level(op1) < Level(op2) /\ DoneOn(a \o <<op1>> \o b \o <<op2>> \o c \o e)) =>
              ReturnedExpression(FirstToken(a),
                  InfixOf(OperandTree(a), op1, InfixOf(OperandTree(b), op2, OperandTree(c))))
        /\ (Level(op1) > Level(op2) /\ DoneOn(a \o <<op1>> \o b \o <<op2>> \o c \o e)) =>
              ReturnedExpression(FirstToken(a),
                  InfixOf(InfixOf(OperandTree(a), op1, OperandTree(b)), op2, OperandTree(c)))
        /\ DoneOn(<<<<"-">>, <<"a">>, op1, <<"b">>>> \o e) =>
              ReturnedExpression(Token("Minus", <<"-">>),
                  InfixOf(PrefixOf(<<"-">>, IdentOf("a")), op1, IdentOf("b")))

\* C10: ( e ) parses to the tree of e with no node for the parentheses and
\* is one operand of the operators around it ((5 + 5) * 2 is ((5 + 5) * 2),
\* 2 / (5 + 5) is (2 / (5 + 5))); when the token after e is not ")" the
\* statement fails with an unexpected-token error.
C10_Grouping ==
    \A e \in StatementEnds :
        /\ DoneOn(<<<<"(">>, <<"5">>, <<"+">>, <<"5">>, <<")">>, <<"*">>, <<"2">>>> \o e) =>
              ReturnedExpression(Token("LParen", <<"(">>),
                  InfixOf(InfixOf(IntOf("5"), <<"+">>, IntOf("5")), <<"*">>, IntOf("2")))
        /\ DoneOn(<<<<"2">>, <<"/">>, <<"(">>, <<"5">>, <<"+">>, <<"5">>, <<")">>>> \o e) =>
              ReturnedExpression(Token("Int", <<"2">>),
                  InfixOf(IntOf("2"), <<"/">>, InfixOf(IntOf("5"), <<"+">>, IntOf("5"))))
        /\ DoneOn(<<<<"(">>, <<"a">>, <<"+">>, <<"b">>, <<")">>>> \o e) =>
              ReturnedExpression(Token("LParen", <<"(">>),
                  InfixOf(IdentOf("a"), <<"+">>, IdentOf("b")))
        /\ DoneOn(<<<<"(">>, <<"a">>, <<"+">>, <<"b">>, <<"}">>>> \o e) =>
              /\ result.kind = "Err"
              /\ result.errors[1] = "expected next token to be ), got } instead"

\* the tree expected for a call
CallOf(function, arguments) ==
    [kind |-> "Call", token |-> Token("LParen", <<"(">>),
     function |-> function, arguments |-> arguments]

\* C11: an expression followed by "(" parses as a Call of the expression to
\* the left with the comma-separated expressions up to the matching ")" as
\* arguments, in source order, and Call binds tighter than every prefix and
\* infix operator: add(1, 2 * 3, 4 + 5) parses without errors as one Call of
\* three arguments and a + add(b * c) + d as ((a + add((b * c))) + d).
\* Stated on the texts ended by a semicolon.
C11_Call ==
    \A e \in {<<<<";">>>>} :
        /\ DoneOn(<<Add, <<"(">>, <<"1">>, <<",">>, <<"2">>, <<"*">>, <<"3">>, <<",">>,
                    <<"4">>, <<"+">>, <<"5">>, <<")">>>> \o e) =>
              ReturnedExpression(Token("Ident", Add),
                  CallOf(Identifier(Token("Ident", Add)),
                         <<IntOf("1"),
                           InfixOf(IntOf("2"), <<"*">>, IntOf("3")),
                           InfixOf(IntOf("4"), <<"+">>, IntOf("5"))>>))
        /\ DoneOn(<<<<"a">>, <<"+">>, Add, <<"(">>, <<"b">>, <<"*">>, <<"c">>, <<")">>,
                    <<"+">>, <<"d">>>> \o e) =>
              ReturnedExpression(Token("Ident", <<"a">>),
                  InfixOf(InfixOf(IdentOf("a"), <<"+">>,
                                  CallOf(Identifier(Token("Ident", Add)),
                                         <<InfixOf(IdentOf("b"), <<"*">>, IdentOf("c"))>>)),
                          <<"+">>, IdentOf("d")))

\* the trees expected for a condition and for a block body
CondTree(c) ==
    IF Len(c) = 1 THEN IdentOf("x") ELSE InfixOf(IdentOf("x"), <<"<">>, IdentOf("y"))

RECURSIVE BodyStatements(_)
BodyStatements(b) ==
    IF b = <<>> THEN <<>>
    ELSE IF Head(b) = <<";">> THEN BodyStatements(Tail(b))
    ELSE <<ExpressionStatement(Token("Ident", Head(b)), Identifier(Token("Ident", Head(b))))>>
             \o BodyStatements(Tail(b))

BlockTree(b) == BlockStatement(Token("LBrace", <<"{">>), BodyStatements(b))

IfToken == Token("If", KwIf)

\* parse_program returned errors, the first of them being message
FirstError(message) == result.kind = "Err" /\ result.errors[1] = message

\* C12: if ( c ) { s1 }, optionally followed by else { s2 }, parses to one
\* If expression with condition c, the statements of the first block in
\* order as consequence, and an alternative exactly when else follows the
\* closing brace of the consequence directly; a missing "(", ")" or "{"
\* where one is required makes the statement fail with an unexpected-token
\* error.
C12_If ==
    /\ \A c \in IfConds, b \in BlockBodies, e \in StatementEnds :
          /\ DoneOn(IfText(c, b) \o e) =>
                ReturnedExpression(IfToken,
                    IfExpression(IfToken, CondTree(c), BlockTree(b), None))
          /\ \A a \in BlockBodies :
                DoneOn(IfElseText(c, b, a) \o e) =>
                    ReturnedExpression(IfToken,
                        IfExpression(IfToken, CondTree(c), BlockTree(b), BlockTree(a)))
    /\ \A c \in IfConds :
          DoneOn(IfText(c, <<<<"x">>>>) \o <<<<";">>, KwElse, <<"{">>, <<"y">>, <<"}">>>>) =>
              /\ Len(program) >= 1
              /\ program[1].expression
                    = IfExpression(IfToken, CondTree(c), BlockTree(<<<<"x">>>>), None)
    /\ \A e \in StatementEnds :
          /\ DoneOn(<<KwIf, <<"x">>, <<")">>, <<"{">>, <<"x">>, <<"}">>>> \o e) =>
                FirstError("expected next token to be (, got IDENT instead")
          /\ DoneOn(<<KwIf, <<"(">>, <<"x">>, <<"{">>, <<"x">>, <<"}">>>> \o e) =>
                FirstError("expected next token to be ), got { instead")
          /\ DoneOn(<<KwIf, <<"(">>, <<"x">>, <<")">>, <<"x">>, <<"}">>>> \o e) =>
                FirstError("expected next token to be {, got IDENT instead")
          /\ DoneOn(<<KwIf, <<"(">>, <<"x">>, <<")">>, <<"{">>, <<"x">>, <<"}">>,
                      KwElse, <<"y">>, <<"}">>>> \o e) =>
                FirstError("expected next token to be {, got IDENT instead")

\* parse_program returned the if of "if ( x < y ) { x } else { x ; y }",
\* with its alternative
C12_Witness ==
    /\ DoneOn(IfElseText(<<<<"x">>, <<"<">>, <<"y">>>>, <<<<"x">>>>,
                         <<<<"x">>, <<";">>, <<"y">>>>))
    /\ result.kind = "Ok"
    /\ result.program[1].expression.kind = "If"
    /\ result.program[1].expression.alternative = BlockTree(<<<<"x">>, <<";">>, <<"y">>>>)

\* the expression statement expected for an expression of ExprTemplates
ExprStatement(t) ==
    IF t = <<<<"3">>, <<"+">>, <<"4">>>>
    THEN ExpressionStatement(Token("Int", <<"3">>), InfixOf(IntOf("3"), <<"+">>, IntOf("4")))
    ELSE IF t = <<<<"a">>>>
    THEN ExpressionStatement(Token("Ident", <<"a">>), IdentOf("a"))
    ELSE ExpressionStatement(Token("Minus", <<"-">>),
             InfixOf(PrefixOf(<<"-">>, IntOf("5")), <<"*">>, IntOf("5")))

\* C13: an expression statement needs no semicolon: the semicolon right
\* after the expression is consumed if there is one and nothing else is, so
\* expressions separated by semicolons, with or without a last one, parse to
\* one Expression statement per expression, in source order ("3 + 4; -5 * 5"
\* gives exactly two statements).
C13_ExpressionStatements ==
    \A ts \in SeqsUpTo(ExprTemplates, MaxStmts) \ {<<>>} : \A e \in StatementEnds :
        DoneOn(SemicolonSeparated(ts) \o e) =>
            result = [kind |-> "Ok", program |-> [i \in 1..Len(ts) |-> ExprStatement(ts[i])]]

\* the number of statements of ss that have a syntax error
RECURSIVE BadCount(_)
BadCount(ss) ==
    IF ss = <<>> THEN 0
    ELSE (IF Head(ss) \in BadStatements THEN 1 ELSE 0) + BadCount(Tail(ss))

\* C14 (error recovery bound): for a program of statements ended by
\* semicolons of which k have one syntax error each, the others being well
\* formed, parse_program returns an error list of exactly k entries (the
\* program when k is 0).
C14_ErrorBound ==
    \A ss \in SeqsUpTo(GoodStatements \cup BadStatements, MaxStmts) :
        DoneOn(Flatten(ss)) =>
            IF BadCount(ss) = 0 THEN result.kind = "Ok"
            ELSE result.kind = "Err" /\ Len(result.errors) = BadCount(ss)

RECURSIVE StripZeros(_)
StripZeros(lit) ==
    IF lit # <<>> /\ Head(lit) = "0" THEN StripZeros(Tail(lit)) ELSE lit

\* the decimal digits of i64::MAX, 9223372036854775807
I64MaxDigits ==
    <<"9", "2", "2", "3", "3", "7", "2", "0", "3", "6", "8", "5", "4", "7", "7", "5",
      "8", "0", "7">>

\* s is greater than t, for digit runs of one length
RECURSIVE DigitsGreater(_, _)
DigitsGreater(s, t) ==
    /\ s # <<>>
    /\ \/ DigitValue(Head(s)) > DigitValue(Head(t))
       \/ Head(s) = Head(t) /\ DigitsGreater(Tail(s), Tail(t))

\* the literal, a run of digits, is above i64::MAX
AboveI64Max(lit) ==
    \/ Len(StripZeros(lit)) > Len(I64MaxDigits)
    \/ Len(StripZeros(lit)) = Len(I64MaxDigits) /\ DigitsGreater(StripZeros(lit), I64MaxDigits)

\* the decimal values of the literals of SmallLiterals
ValueOf(lit) ==
    CASE lit = <<"0">> -> I64(FALSE, <<0, 0, 0>>)
      [] lit = <<"7">> -> I64(FALSE, <<7, 0, 0>>)
      [] lit = <<"0", "0", "7">> -> I64(FALSE, <<7, 0, 0>>)
      [] lit = <<"1", "0">> -> I64(FALSE, <<10, 0, 0>>)
      [] lit = <<"9", "9", "9", "9", "9", "9", "9", "9">> -> I64(FALSE, <<99999999, 0, 0>>)
      [] lit = <<"1", "0", "0", "0", "0", "0", "0", "0", "0">> -> I64(FALSE, <<0, 1, 0>>)
      [] lit = <<"2", "1", "4", "7", "4", "8", "3", "6", "4", "8">> -> I64(FALSE, <<47483648, 21, 0>>)
      [] lit = <<"9", "2", "2", "3", "3", "7", "2", "0", "3", "6", "8", "5", "4", "7", "7", "5", "8", "0", "7">> -> I64(FALSE, <<54775807, 33720368, 922>>)
      [] lit = <<"0", "0", "0", "0", "9", "2", "2", "3", "3", "7", "2", "0", "3", "6", "8", "5", "4", "7", "7", "5", "8", "0", "7">> -> I64(FALSE, <<54775807, 33720368, 922>>)

ExpressionOf(name) == ExpressionStatement(Token("Ident", <<name>>), IdentOf(name))

\* C16: an Int token whose literal is above 2^63 - 1 gives the error "could
\* not parse <literal> as integer", no IntegerLiteral node, and its statement
\* is dropped while the statements around it are kept; for an Int literal
\* within range the node's value is the decimal value of the lexeme.
C16_IntegerLiterals ==
    /\ \A l \in SmallLiterals :
          /\ ~AboveI64Max(l)
          /\ DoneOn(<<l, <<";">>>>) =>
                ReturnedExpression(Token("Int", l), IntegerLiteral(Token("Int", l), ValueOf(l)))
          /\ DoneOn(<<KwLet, <<"x">>, <<"=">>, l, <<";">>>>) =>
                result = [kind |-> "Ok", program |->
                             <<LetStatement(Token("Let", KwLet), IdentOf("x"),
                                            IntegerLiteral(Token("Int", l), ValueOf(l)))>>]
    /\ \A l \in LargeLiterals :
          /\ AboveI64Max(l)
          /\ \A ts \in {<<l, <<";">>>>, <<KwLet, <<"x">>, <<"=">>, l, <<";">>>>,
                        <<<<"-">>, l, <<";">>>>, <<l, <<"+">>, <<"1">>, <<";">>>>} :
                DoneOn(ts) =>
                    /\ result = [kind |-> "Err", errors |->
                                    <<"could not parse " \o Str(l) \o " as integer">>]
                    /\ program = <<>>
          /\ DoneOn(<<<<"a">>, <<";">>, l, <<";">>, <<"b">>, <<";">>>>) =>
                /\ result = [kind |-> "Err", errors |->
                                <<"could not parse " \o Str(l) \o " as integer">>]
                /\ program = <<ExpressionOf("a"), ExpressionOf("b")>>

\* parse_program returned the error of the literal one above i64::MAX, its
\* statement dropped and the statements before and after it parsed
C16_Witness ==
    /\ DoneOn(<<<<"a">>, <<";">>,
                <<"9", "2", "2", "3", "3", "7", "2", "0", "3", "6", "8", "5", "4", "7", "7", "5", "8", "0", "8">>,
                <<";">>, <<"b">>, <<";">>>>)
    /\ result.kind = "Err"
    /\ Len(program) = 2

\* the structure of a node: the node without the tokens it was made from
RECURSIVE Shape(_)
Shape(n) ==
    CASE n.kind \in {"Identifier", "Integer", "Boolean"} -> [kind |-> n.kind, value |-> n.value]
      [] n.kind = "Prefix" -> [kind |-> n.kind, operator |-> n.operator, right |-> Shape(n.right)]
      [] n.kind = "Infix" ->
            [kind |-> n.kind, operator |-> n.operator, left |-> Shape(n.left),
             right |-> Shape(n.right)]
      [] n.kind = "If" ->
            [kind |-> n.kind, condition |-> Shape(n.condition),
             consequence |-> Shape(n.consequence),
             alternative |-> IF n.alternative = None THEN None ELSE Shape(n.alternative)]
      [] n.kind = "Function" ->
            [kind |-> n.kind,
             parameters |-> [i \in 1..Len(n.parameters) |-> Shape(n.parameters[i])],
             body |-> Shape(n.body)]
      [] n.kind = "Block" ->
            [kind |-> n.kind,
             statements |-> [i \in 1..Len(n.statements) |-> Shape(n.statements[i])]]
      [] n.kind = "Let" -> [kind |-> n.kind, name |-> Shape(n.name), value |-> Shape(n.value)]
      [] n.kind = "Return" -> [kind |-> n.kind, return_value |-> Shape(n.return_value)]
      [] n.kind = "Expression" -> [kind |-> n.kind, expression |-> Shape(n.expression)]

\* programs with the same statements and the same expression trees
SameProgram(a, b) ==
    /\ Len(a) = Len(b)
    /\ \A i \in 1..Len(a) : Shape(a[i]) = Shape(b[i])

\* C15 (parse-print round trip): when the input parsed without errors, the
\* rendered program parses again without errors, to a program with the same
\* statements and the same expression trees.
C15_RoundTrip ==
    (pc = "done" /\ result.kind = "Ok") =>
        /\ ParseProgram(RenderProgram(result.program)).kind = "Ok"
        /\ SameProgram(ParseProgram(RenderProgram(result.program)).program, result.program)

-----------------------------------------------------------------------------
(* Evaluator claims *)

\* a call into the evaluator has ended: it returned or it panicked
Ended(call) == evaluator.call = call /\ evaluator.pc \in {"returned", "panicked"}

\* what eval gives for the last statement of the evaluated program
LastValue == Eval(NodesStatement(evaluator.arg[Len(evaluator.arg)]))

\* C17 (last statement's value): evaluating a program returns None for an
\* empty program, and for a non-empty program exactly what evaluating its
\* last statement gives (a value or None), whatever the earlier statements
\* are.
C17_LastStatement ==
    Ended("eval") =>
        IF evaluator.arg = <<>>
        THEN evaluator.pc = "returned" /\ evaluator.result = None
        ELSE LastValue # Panic =>
                evaluator.pc = "returned" /\ evaluator.result = LastValue

\* what the specification gives for ! on an object
SpecBang(right) ==
    IF right = Boolean(FALSE) \/ right = Null THEN Boolean(TRUE) ELSE Boolean(FALSE)

\* the expression !!n on an integer literal n
DoubleBangOfInteger(e) ==
    /\ e.kind = "Prefix" /\ e.operator = <<"!">>
    /\ e.right.kind = "Prefix" /\ e.right.operator = <<"!">>
    /\ e.right.right.kind = "Integer"

\* C18 (the ! operator): ! gives Boolean(true) on Boolean(false) and on Null,
\* Boolean(false) on Boolean(true) and on every other object, every Integer
\* and 0 included; and !!n evaluates to Boolean(true) on every integer
\* literal n.
C18_Bang ==
    /\ (Ended("eval_prefix") /\ evaluator.arg.operator = Bang) =>
          /\ evaluator.pc = "returned"
          /\ evaluator.result = Some(SpecBang(evaluator.arg.right))
    /\ (Ended("eval_expression") /\ DoubleBangOfInteger(evaluator.arg)) =>
          /\ evaluator.pc = "returned"
          /\ evaluator.result = Some(Boolean(TRUE))

\* ! was applied to Null and gave Boolean(true)
C18_Witness ==
    /\ Ended("eval_prefix")
    /\ evaluator.arg = [operator |-> Bang, right |-> Null]
    /\ evaluator.result = Some(Boolean(TRUE))

\* -n in the integers, as sign and magnitude
Opposite(value) ==
    [neg |-> value.mag # <<0, 0, 0>> /\ ~value.neg, mag |-> value.mag]

UnsupportedExpression(e) == e.kind \in {"Identifier", "Infix", "If", "Function", "Call"}

UnsupportedStatement(s) ==
    \/ s.kind \in {"Let", "Return"}
    \/ s.kind = "Expression" /\ UnsupportedExpression(s.expression)

\* C20 (unsupported constructs): evaluating a Let or Return statement, or an
\* Identifier, Infix, If, FunctionLiteral or Call expression, returns no
\* value and does not abort the evaluation.
C20_Unsupported ==
    /\ (Ended("eval_statement") /\ UnsupportedStatement(evaluator.arg)) =>
          evaluator.pc = "returned" /\ evaluator.result = None
    /\ (Ended("eval_expression") /\ UnsupportedExpression(evaluator.arg)) =>
          evaluator.pc = "returned" /\ evaluator.result = None
    /\ (/\ Ended("eval")
        /\ evaluator.arg # <<>>
        /\ \A i \in 1..Len(evaluator.arg) : UnsupportedStatement(evaluator.arg[i])) =>
          evaluator.pc = "returned" /\ evaluator.result = None

\* the integer literals under the prefix operators of an expression
RECURSIVE IntegerLiterals(_)
IntegerLiterals(e) ==
    CASE e.kind = "Integer" -> {e.value}
      [] e.kind = "Prefix" -> IntegerLiterals(e.right)
      [] OTHER -> {}

\* the objects eval_op_neg is applied to while an expression is evaluated
RECURSIVE NegOperands(_)
NegOperands(e) ==
    IF e.kind # "Prefix" THEN {}
    ELSE LET right == EvalExpression(e.right, FALSE)
         IN NegOperands(e.right)
                \cup (IF e.operator = <<"-">> /\ right.kind = "Some" THEN {right.value}
                      ELSE {})

\* C27 (no overflow in prefix minus): in an expression the parser produced,
\* every integer literal lies in [0, 2^63 - 1]; while it is evaluated,
\* eval_op_neg is never applied to -2^63, no Integer result is -2^63, and the
\* outcome is the same with and without overflow checks.
C27_NoOverflow ==
    Ended("eval_expression") =>
        /\ \A v \in IntegerLiterals(evaluator.arg) :
              ~v.neg /\ ~MagGreater(v.mag, I64MaxMag)
        /\ Integer(I64Min) \notin NegOperands(evaluator.arg)
        /\ evaluator.pc = "returned" => evaluator.result # Some(Integer(I64Min))
        /\ EvalExpression(evaluator.arg, TRUE) = EvalExpression(evaluator.arg, FALSE)

\* eval_op_neg has been applied to -(2^63 - 1), in - - 9223372036854775807
C27_Witness ==
    /\ Ended("eval_expression")
    /\ evaluator.pc = "returned"
    /\ Integer(I64(TRUE, I64MaxMag)) \in NegOperands(evaluator.arg)
    /\ evaluator.result = Some(Integer(I64(FALSE, I64MaxMag)))

\* C28 (no value propagates): when the operand of a prefix expression
\* evaluates to no value, the prefix expression evaluates to no value and its
\* operator is not applied; ! ( - true ) gives no value, not Boolean(true).
C28_NoValuePropagates ==
    (/\ Ended("eval_expression")
     /\ evaluator.arg.kind = "Prefix"
     /\ EvalExpression(evaluator.arg.right, evaluator.overflow_checks) = None) =>
        /\ evaluator.pc = "returned"
        /\ evaluator.result = None

\* ! ( - true ) has been evaluated
C28_Witness ==
    /\ Ended("eval_expression")
    /\ evaluator.arg.kind = "Prefix"
    /\ evaluator.arg.operator = <<"!">>
    /\ evaluator.arg.right.kind = "Prefix"
    /\ evaluator.arg.right.operator = <<"-">>
    /\ evaluator.arg.right.right.kind = "Boolean"
    /\ evaluator.arg.right.right.value = TRUE
    /\ lexer.input = Join(<<<<"!">>, <<"(">>, <<"-">>, KwTrue, <<")">>, <<";">>>>)
    /\ evaluator.result = None

-----------------------------------------------------------------------------
(* Error recovery claims *)

\* the next n tokens of lexer l
RECURSIVE LexFrom(_, _)
LexFrom(l, n) ==
    IF n = 0 THEN <<>>
    ELSE LET r == NextToken(l) IN <<r.tok>> \o LexFrom(r.lexer, n - 1)

\* the tokens of the input from peek_token of parser p on, Eof tokens at the end
TokensAhead(p) == <<p.peek_token>> \o LexFrom(p.lexer, Len(p.lexer.input) + 3)

SyncTypes == {"Semicolon", "RBrace", "Let", "Return", "If", "Else", "Function", "Eof"}

\* the index in ts of the first token synchronize stops at
FirstSync(ts) == CHOOSE m \in 1..Len(ts) :
                    /\ ts[m].type \in SyncTypes
                    /\ \A i \in 1..(m - 1) : ts[i].type \notin SyncTypes

\* this turn of parse_program's loop is one whose statement failed
FailedTurn == pc = "parse_program" /\ Len(errors') = Len(errors) + 1

C21_Step ==
    FailedTurn =>
        LET ahead == TokensAhead(ParseStatement(P).p)
            m == FirstSync(ahead)
        IN IF ahead[m].type \in {"Semicolon", "RBrace"}
           THEN current_token' = ahead[m + 1] /\ peek_token' = ahead[m + 2]
           ELSE current_token' = ahead[m] /\ peek_token' = ahead[m + 1]

\* C21 (synchronize): after a statement failed, the tokens up to the first
\* Semicolon, RBrace, Let, Return, If, Else, Function or Eof that follows
\* are skipped and no more: a Semicolon or RBrace is consumed, a keyword is
\* not, so that the next statement parse_program attempts has the token after
\* the Semicolon or RBrace, or the keyword itself, as current_token.
C21_Synchronize == [][C21_Step]_vars

\* the statements of a tail of LetTails: its identifiers, in order
RECURSIVE TailStatements(_)
TailStatements(t) ==
    IF t = <<>> THEN <<>>
    ELSE IF Head(t) = <<";">> THEN TailStatements(Tail(t))
    ELSE <<ExpressionStatement(Token("Ident", Head(t)), Identifier(Token("Ident", Head(t))))>>
             \o TailStatements(Tail(t))

\* C22 (let and return consume their own tokens only): after the value of a
\* let or return statement a directly following semicolon is consumed and no
\* other token is skipped, so an expression that follows the value without a
\* semicolon between is the next statement of the program.
C22_LetFrame ==
    \A h \in LetHeads, t \in LetTails :
        DoneOn(h \o t) =>
            /\ result.kind = "Ok"
            /\ Len(result.program) = 1 + Len(TailStatements(t))
            /\ result.program[1].kind = IF Head(h) = KwLet THEN "Let" ELSE "Return"
            /\ SubSeq(result.program, 2, Len(result.program)) = TailStatements(t)

\* a call of expect_peek with the type result' names
C23_Step ==
    pc = "expect_peek" =>
        IF peek_token.type = result'.type
        THEN /\ result'.res = "Ok"
             /\ current_token' = peek_token
             /\ peek_token' = NextToken(lexer).tok
             /\ lexer' = NextToken(lexer).lexer
        ELSE /\ result'.res = "Err"
             /\ result'.val = "expected next token to be " \o DisplayTokenType(result'.type)
                                 \o ", got " \o DisplayTokenType(peek_token.type)
                                 \o " instead"
             /\ UNCHANGED <<lexer, current_token, peek_token>>

\* parse_program on "let x 5 ;" returns the one error of the missing "="
C23_LetWithoutAssign ==
    DoneOn(<<KwLet, <<"x">>, <<"5">>, <<";">>>>) =>
        /\ result.kind = "Err"
        /\ result.errors = <<"expected next token to be =, got INT instead">>

\* C23 (expect_peek): when peek_token has the expected type the parser moves
\* on by exactly one token and the call succeeds; otherwise the call returns
\* "expected next token to be <kind>, got <actual kind> instead" and leaves
\* current_token, peek_token and the lexer as they were; parsing "let x 5;"
\* gives exactly the one error "expected next token to be =, got INT instead".
C23_ExpectPeek == []C23_LetWithoutAssign /\ [][C23_Step]_vars

\* a call of expect_peek failed on an Int where "=" was expected
C23_Witness ==
    /\ pc = "expect_peek"
    /\ result.kind = "ExpectPeek"
    /\ result.type = "Assign"
    /\ result.res = "Err"
    /\ result.val = "expected next token to be =, got INT instead"
    /\ lexer.input = Join(<<KwLet, <<"x">>, <<"5">>, <<";">>>>)

\* the identifiers of a parameter list of GoodParameters, in order
RECURSIVE ParameterNodes(_)
ParameterNodes(ps) ==
    IF ps = <<>> THEN <<>>
    ELSE IF Head(ps) = <<",">> THEN ParameterNodes(Tail(ps))
    ELSE <<Identifier(Token("Ident", Head(ps)))>> \o ParameterNodes(Tail(ps))

\* C24 (function parameters): fn(p1, ..., pn) { } gives a function literal
\* whose parameters are the identifiers p1..pn in order, none for fn(); a
\* list with a token that is no identifier in some position, or a list that
\* no ")" closes, makes the statement fail with an error, and no function
\* literal is emitted.
C24_Parameters ==
    /\ \A ps \in GoodParameters :
          DoneOn(FnText(ps)) =>
              /\ result.kind = "Ok"
              /\ Len(result.program) = 1
              /\ result.program[1].expression.kind = "Function"
              /\ result.program[1].expression.parameters = ParameterNodes(ps)
    /\ \A ps \in BadParameters : DoneOn(FnText(ps)) => result.kind = "Err"
    /\ DoneOn(<<KwFn, <<"(">>, <<"x">>, <<"{">>, <<"}">>, <<";">>>>) => result.kind = "Err"
    /\ DoneOn(<<KwFn, <<"(">>, <<"x">>, <<",">>, <<"y">>, <<"{">>, <<"}">>, <<";">>>>) =>
          result.kind = "Err"

\* C25 (unclosed block): when the input ends before the closing brace of a
\* block, as in `if (x) { x`, parse_program returns no program but an error
\* list with at least one entry.
C25_UnclosedBlock ==
    \A ts \in UnclosedBlocks :
        DoneOn(ts) => result.kind = "Err" /\ Len(result.errors) >= 1

\* the lexer after n calls of next_token
RECURSIVE LexerAfter(_, _)
LexerAfter(l, n) == IF n = 0 THEN l ELSE LexerAfter(NextToken(l).lexer, n - 1)

\* current_token and peek_token are the i-th and the next token of the
\* input, and the lexer stands right after them, for some i
Adjacent ==
    \E i \in 1..(Len(lexer.input) + 1) :
        LET ts == LexFrom(LexerNew(lexer.input), i + 1)
        IN /\ ts[i] = current_token
           /\ ts[i + 1] = peek_token
           /\ LexerAfter(LexerNew(lexer.input), i + 1) = lexer

\* C30 (lookahead adjacency): each time parse_program begins a top-level
\* statement, peek_token is the token that follows current_token in the token
\* stream of the input, none between them and none dropped, also for the
\* statement that follows a run of synchronize.
C30_Adjacency ==
    (pc = "parse_program" /\ ~CurTokenIs(P, "Eof")) => Adjacent

-----------------------------------------------------------------------------
(* REPL claims *)

\* C26 (the REPL ends with its input): once read_line has found the input at
\* its end, start eventually returns.
C26_Terminates == (repl.eof) ~> (repl.pc = "returned")

\* C29 (parse_program ends at Eof): whenever parse_program returns,
\* current_token is Eof; the second call on the same parser returns Ok with
\* an empty program; the inner loop of the REPL calls parse_program at most
\* twice on a line, and on a failing line it writes the errors and then an
\* empty program.
C29_TwoCalls ==
    /\ pc = "done" => current_token.type = "Eof"
    /\ repl.calls <= 2
    /\ (pc = "done" /\ repl.calls = 2) => result = [kind |-> "Ok", program |-> <<>>]
    /\ (repl.pc = "prompt" /\ repl.calls = 2) =>
          /\ Len(repl.out) >= 6
          /\ SubSeq(repl.out, 1, 4) =
                <<WritePrompt, WriteMonkeyFace, WriteWoops, WriteParserErrors>>
          /\ \A i \in 5..(Len(repl.out) - 1) : repl.out[i].write = "error"
          /\ repl.out[Len(repl.out)] = WriteProgram(<<>>)

\* a failing line has been answered with its two errors and an empty program
C29_Witness ==
    /\ repl.pc = "prompt"
    /\ repl.calls = 2
    /\ Len(repl.out) = 7
    /\ repl.out[Len(repl.out)] = WriteProgram(<<>>)

====
